---- MODULE Spec2Model ----
(***************************************************************************)
(* Model of the LinkedIn profile parser (src/src/scraper/parser.py).       *)
(*                                                                         *)
(* Strings are run-length encoded: a string is a sequence of runs          *)
(* [c |-> character, n |-> repetitions] in which adjacent runs hold        *)
(* different characters, so that length, lower-casing, trimming, substring *)
(* tests and the profile-path regular expression are computed on the       *)
(* characters themselves.  Python values are tagged records.               *)
(***************************************************************************)
EXTENDS Integers, Sequences, FiniteSets, TLC

VARIABLES soup, call, pc, ret, profile_data, json_ld_data,
          item_queue, item, is_truly_grouped, exp, experiences,
          profiles, max_concurrent, semaphore, tasks, results,
          now, limiter, log, threads, cache, fs

\* the locals of _extract_experience
loop_vars == <<item_queue, item, is_truly_grouped, exp, experiences>>

\* the state of BatchProcessor.process_batch
batch_vars == <<profiles, max_concurrent, semaphore, tasks, results>>

\* the clock, the RateLimiter and the requests made of it
limiter_vars == <<now, limiter, log>>

\* the state of the modules beside the parser and the batch processor
\* the threads that call the MultiKeyRateLimiter, the SimpleCache and the
\* files of the command line
rest_vars == <<threads, cache, fs>>

util_vars == <<limiter_vars, rest_vars>>

vars == <<soup, call, pc, ret, profile_data, json_ld_data, loop_vars, batch_vars,
          util_vars>>

(***************************************************************************)
(* Bounds of the model.                                                    *)
(***************************************************************************)
\* most selectors of one cascade that find an element in one document
MaxMatched == 2

(***************************************************************************)
(* Strings.                                                                *)
(***************************************************************************)
Run(c, n) == <<[c |-> c, n |-> n]>>

\* string concatenation (a + b)
Cat(a, b) ==
  IF a = <<>> THEN b
  ELSE IF b = <<>> THEN a
  ELSE IF a[Len(a)].c = b[1].c
       THEN SubSeq(a, 1, Len(a) - 1)
              \o Run(b[1].c, a[Len(a)].n + b[1].n)
              \o Tail(b)
       ELSE a \o b

RECURSIVE Lit(_)
\* the string literal spelled by a sequence of characters
Lit(chars) ==
  IF chars = <<>> THEN <<>> ELSE Cat(Run(Head(chars), 1), Lit(Tail(chars)))

RECURSIVE StrLen(_)
\* len(s)
StrLen(s) == IF s = <<>> THEN 0 ELSE s[1].n + StrLen(Tail(s))

LowerChar(c) ==
  CASE c = "C" -> "c" [] c = "O" -> "o" [] c = "N" -> "n" [] c = "E" -> "e"
    [] c = "T" -> "t" [] c = "I" -> "i" [] c = "S" -> "s" [] c = "F" -> "f"
    [] c = "D" -> "d" [] c = "J" -> "j" [] c = "K" -> "k" [] c = "A" -> "a"
    [] c = "X" -> "x" [] c = "P" -> "p" [] c = "H" -> "h" [] c = "V" -> "v"
    [] OTHER -> c

RECURSIVE Lower(_)
\* s.lower()
Lower(s) ==
  IF s = <<>> THEN <<>>
  ELSE Cat(Run(LowerChar(s[1].c), s[1].n), Lower(Tail(s)))

IsSpace(c) == c \in {" ", "\n"}

RECURSIVE LStrip(_)
LStrip(s) ==
  IF s = <<>> THEN <<>> ELSE IF IsSpace(s[1].c) THEN LStrip(Tail(s)) ELSE s

RECURSIVE RStrip(_)
RStrip(s) ==
  IF s = <<>> THEN <<>>
  ELSE IF IsSpace(s[Len(s)].c) THEN RStrip(SubSeq(s, 1, Len(s) - 1)) ELSE s

\* s.strip()
Strip(s) == RStrip(LStrip(s))

\* the runs i .. i+Len(w)-1 of s spell an occurrence of w
OccursAt(w, s, i) ==
  /\ i >= 1
  /\ i + Len(w) - 1 <= Len(s)
  /\ \A k \in 1..Len(w) :
       /\ s[i + k - 1].c = w[k].c
       /\ IF k = 1 \/ k = Len(w)
          THEN s[i + k - 1].n >= w[k].n
          ELSE s[i + k - 1].n = w[k].n

\* w in s, for a literal w of two or more runs
Contains(s, w) == \E i \in 1..Len(s) : OccursAt(w, s, i)

RECURSIVE Join(_, _)
\* sep.join(parts)
Join(sep, parts) ==
  IF parts = <<>> THEN <<>>
  ELSE IF Len(parts) = 1 THEN parts[1]
  ELSE Cat(Cat(parts[1], sep), Join(sep, Tail(parts)))

(***************************************************************************)
(* Python values.                                                          *)
(***************************************************************************)
PyNone == [t |-> "None"]
PyStr(s) == [t |-> "str", s |-> s]
PyList(v) == [t |-> "list", v |-> v]
PyDict(f) == [t |-> "dict", f |-> f]
PyNum(n) == [t |-> "num", n |-> n]
PyBool(b) == [t |-> "bool", b |-> b]
EmptyDict == [t |-> "dict", f |-> <<>>]

\* d[k] = v
SetKey(d, k, v) == PyDict((k :> v) @@ d.f)

\* k in d
HasKey(d, k) == k \in DOMAIN d.f

\* d.get(k, default)
Get(d, k, default) == IF HasKey(d, k) THEN d.f[k] ELSE default

\* bool(v)
Truthy(v) ==
  CASE v.t = "None" -> FALSE
    [] v.t = "str" -> v.s # <<>>
    [] v.t = "list" -> v.v # <<>>
    [] v.t = "dict" -> DOMAIN v.f # {}
    [] v.t = "num" -> v.n # 0
    [] v.t = "bool" -> v.b
    [] OTHER -> TRUE

(***************************************************************************)
(* The queryable tree.  soup.sel[f][i] is what select_one answers for the  *)
(* i-th selector of SELECTORS[f]: no element, an exception, or the first   *)
(* matching element with its text nodes and its src attribute.             *)
(***************************************************************************)
NoMatch == [m |-> "none"]
Raises == [m |-> "raise"]
Elem(strings, src) == [m |-> "elem", strings |-> strings, src |-> src]

BasicFields == {"name", "headline", "location", "profile_photo", "about"}

\* SELECTORS: the number of selectors of each cascade
NumSelectors ==
  [name |-> 6, headline |-> 6, location |-> 5, profile_photo |-> 4, about |-> 5]

RECURSIVE StrippedStrings(_)
\* the stripped, non-empty text nodes of an element
StrippedStrings(strings) ==
  IF strings = <<>> THEN <<>>
  ELSE IF Strip(strings[1]) = <<>> THEN StrippedStrings(Tail(strings))
  ELSE <<Strip(strings[1])>> \o StrippedStrings(Tail(strings))

\* element.get_text(separator=sep, strip=True)
get_text(element, sep) == Join(sep, StrippedStrings(element.strings))

(***************************************************************************)
(* Basic-field extraction: one cascade per field.                          *)
(***************************************************************************)
NameNotFound ==
  Lit(<<"N", "a", "m", "e", " ", "N", "o", "t", " ", "F", "o", "u", "n", "d">>)

RECURSIVE NameFrom(_, _)
\* the loop of _extract_name, from the i-th selector on
NameFrom(s, i) ==
  IF i > NumSelectors.name THEN PyStr(NameNotFound)
  ELSE LET element == s.sel.name[i] IN
       IF element.m = "elem" /\ get_text(element, <<>>) # <<>>
       THEN PyStr(get_text(element, <<>>))
       ELSE NameFrom(s, i + 1)

_extract_name(s) == NameFrom(s, 1)

\* the validity test of a headline text
HeadlineValid(text) ==
  /\ text # <<>>
  /\ ~Contains(Lower(text), Lit(<<"c", "o", "n", "n", "e", "c", "t", "i", "o", "n", "s">>))
  /\ StrLen(text) > 0

RECURSIVE HeadlineFrom(_, _)
HeadlineFrom(s, i) ==
  IF i > NumSelectors.headline THEN PyNone
  ELSE LET element == s.sel.headline[i] IN
       IF element.m = "elem" /\ HeadlineValid(get_text(element, <<>>))
       THEN PyStr(get_text(element, <<>>))
       ELSE HeadlineFrom(s, i + 1)

RECURSIVE HeadlineFromNoCatch(_, _)
\* the loop without its try/except: a raising lookup ends the cascade
HeadlineFromNoCatch(s, i) ==
  IF i > NumSelectors.headline THEN PyNone
  ELSE LET element == s.sel.headline[i] IN
       IF element.m = "raise" THEN PyNone
       ELSE IF element.m = "elem" /\ HeadlineValid(get_text(element, <<>>))
       THEN PyStr(get_text(element, <<>>))
       ELSE HeadlineFromNoCatch(s, i + 1)

_extract_headline_no_catch(s) == HeadlineFromNoCatch(s, 1)

_extract_headline(s) == HeadlineFrom(s, 1)

\* the validity test of a location text
LocationValid(text) ==
  /\ text # <<>>
  /\ StrLen(text) < 100
  /\ ~Contains(Lower(text), Lit(<<"c", "o", "n", "n", "e", "c", "t", "i", "o", "n">>))

RECURSIVE LocationFrom(_, _)
LocationFrom(s, i) ==
  IF i > NumSelectors.location THEN PyNone
  ELSE LET element == s.sel.location[i] IN
       IF element.m = "elem" /\ LocationValid(get_text(element, <<>>))
       THEN PyStr(get_text(element, <<>>))
       ELSE LocationFrom(s, i + 1)

_extract_location(s) == LocationFrom(s, 1)

\* the validity test of a picture address: img.get('src') and 'http' in src
PictureValid(src) ==
  /\ Truthy(src)
  /\ Contains(src.s, Lit(<<"h", "t", "t", "p">>))

RECURSIVE PictureFrom(_, _)
PictureFrom(s, i) ==
  IF i > NumSelectors.profile_photo THEN PyNone
  ELSE LET img == s.sel.profile_photo[i] IN
       IF img.m = "elem" /\ PictureValid(img.src)
       THEN img.src
       ELSE PictureFrom(s, i + 1)

_extract_profile_picture(s) == PictureFrom(s, 1)

\* the test with the boundary off by one
AboutValid_ge(text) == text # <<>> /\ StrLen(text) >= 20

\* the validity test of an about text
AboutValid(text) == text # <<>> /\ StrLen(text) > 20

ParagraphSep == Run("\n", 2)

RECURSIVE AboutFrom(_, _)
AboutFrom(s, i) ==
  IF i > NumSelectors.about THEN PyNone
  ELSE LET element == s.sel.about[i] IN
       IF element.m = "elem" /\ AboutValid(get_text(element, ParagraphSep))
       THEN PyStr(get_text(element, ParagraphSep))
       ELSE AboutFrom(s, i + 1)

\* a miss reported as the empty string
_extract_about_empty_on_miss(s) ==
  IF AboutFrom(s, 1) = PyNone THEN PyStr(<<>>) ELSE AboutFrom(s, 1)

_extract_about(s) == AboutFrom(s, 1)

\* the extractor of a basic field
ExtractBasic(f, s) ==
  CASE f = "name" -> _extract_name(s)
    [] f = "headline" -> _extract_headline(s)
    [] f = "location" -> _extract_location(s)
    [] f = "profile_photo" -> _extract_profile_picture(s)
    [] f = "about" -> _extract_about(s)

(***************************************************************************)
(* Structured data.  soup.scripts lists the script elements of type        *)
(* application/ld+json in document order; a script has no string, an empty *)
(* one, one that json.loads rejects, or one that loads as the value data.  *)
(***************************************************************************)
NoString == [string |-> "None", data |-> PyNone]
EmptyString == [string |-> "empty", data |-> PyNone]
Malformed == [string |-> "malformed", data |-> PyNone]
Json(data) == [string |-> "json", data |-> data]

TextPerson == Lit(<<"P", "e", "r", "s", "o", "n">>)

\* isinstance(v, dict) and v.get('@type') == 'Person'
IsPerson(v) == v.t = "dict" /\ Get(v, "@type", PyNone) = PyStr(TextPerson)

\* `for item in v` raises TypeError
NotIterable(v) == v.t \in {"None", "num"}

\* the items `for item in v` yields that can be dicts
Items(v) == IF v.t = "list" THEN v.v ELSE <<>>

RECURSIVE GraphPerson(_)
\* the loop over data['@graph']: the first Person item, or None
GraphPerson(items) ==
  IF items = <<>> THEN PyNone
  ELSE IF IsPerson(items[1]) THEN items[1]
  ELSE GraphPerson(Tail(items))

\* the body of the loop over scripts raises for this script
ScriptRaises(script) ==
  /\ script.string \in {"malformed", "json"}
  /\ \/ script.string = "malformed"
     \/ /\ script.data.t = "dict"
        /\ ~IsPerson(script.data)
        /\ HasKey(script.data, "@graph")
        /\ NotIterable(script.data.f["@graph"])

\* the Person the body of the loop over scripts returns for this script,
\* or None when it returns nothing
ScriptPerson(script) ==
  IF script.string # "json" THEN PyNone
  ELSE LET data == script.data IN
       IF IsPerson(data) THEN data
       ELSE IF data.t = "dict" /\ HasKey(data, "@graph") /\ ~NotIterable(data.f["@graph"])
            THEN GraphPerson(Items(data.f["@graph"]))
            ELSE PyNone

RECURSIVE JsonLdFrom(_, _)
\* the loop of _extract_json_ld from the i-th script on, inside its try
JsonLdFrom(scripts, i) ==
  IF i > Len(scripts) THEN PyNone
  ELSE IF ScriptRaises(scripts[i]) THEN PyNone
  ELSE IF ScriptPerson(scripts[i]) # PyNone THEN ScriptPerson(scripts[i])
  ELSE JsonLdFrom(scripts, i + 1)

\* scripts[:2]
FirstTwo(scripts) == SubSeq(scripts, 1, IF Len(scripts) < 2 THEN Len(scripts) ELSE 2)

\* only the first two scripts are examined
_extract_json_ld_first_two(s) == JsonLdFrom(FirstTwo(s.scripts), 1)

_extract_json_ld(s) == JsonLdFrom(s.scripts, 1)

(***************************************************************************)
(* The profile user name.                                                  *)
(***************************************************************************)
\* the literal part of the pattern linkedin\.com/in/([^/]+)
ProfilePath ==
  Lit(<<"l", "i", "n", "k", "e", "d", "i", "n", ".", "c", "o", "m", "/", "i", "n", "/">>)

RECURSIVE UpToSlash(_)
\* the longest prefix of s without a slash: what [^/]+ matches
UpToSlash(s) ==
  IF s = <<>> \/ s[1].c = "/" THEN <<>> ELSE <<s[1]>> \o UpToSlash(Tail(s))

\* re.search(r"linkedin\.com/in/([^/]+)", url): group 1 of the leftmost
\* match, the empty string standing for no match
SearchProfilePath(url) ==
  LET w == Len(ProfilePath)
      hits == {i \in 1..Len(url) :
                 /\ OccursAt(ProfilePath, url, i)
                 /\ url[i + w - 1].n = 1
                 /\ i + w <= Len(url)}
  IN IF hits = {} THEN <<>>
     ELSE LET i == CHOOSE k \in hits : \A l \in hits : k <= l
          IN UpToSlash(SubSeq(url, i + w, Len(url)))

LinkedinProfile ==
  Lit(<<"l", "i", "n", "k", "e", "d", "i", "n", "-", "p", "r", "o", "f", "i", "l", "e">>)

\* soup.canonical is the href of the link rel=canonical, None without one
_extract_username(s) ==
  IF Truthy(s.canonical) /\ SearchProfilePath(s.canonical.s) # <<>>
  THEN PyStr(SearchProfilePath(s.canonical.s))
  ELSE PyStr(LinkedinProfile)

(***************************************************************************)
(* The mapping of the Person record.  An operation that raises yields the  *)
(* value Raise, which every enclosing operation passes on.                 *)
(***************************************************************************)
Raise == [t |-> "raise"]

DigitChar(n) ==
  CASE n = 0 -> "0" [] n = 1 -> "1" [] n = 2 -> "2" [] n = 3 -> "3" [] n = 4 -> "4"
    [] n = 5 -> "5" [] n = 6 -> "6" [] n = 7 -> "7" [] n = 8 -> "8" [] n = 9 -> "9"

RECURSIVE Decimal(_)
\* str(n) for a natural number n
Decimal(n) ==
  IF n < 10 THEN Run(DigitChar(n), 1)
  ELSE Cat(Decimal(n \div 10), Run(DigitChar(n % 10), 1))

\* str(v) and the {v} of an f-string, for v a string, a number or None
Str(v) ==
  CASE v.t = "str" -> v.s
    [] v.t = "num" -> Decimal(v.n)
    [] v.t = "None" -> Lit(<<"N", "o", "n", "e">>)

AddressKeys == <<"addressLocality", "addressRegion", "addressCountry">>

\* the characters of the three address keys
AddressKeyText(k) ==
  Cat(Lit(<<"a", "d", "d", "r", "e", "s", "s">>),
      CASE k = 1 -> Lit(<<"L", "o", "c", "a", "l", "i", "t", "y">>)
        [] k = 2 -> Lit(<<"R", "e", "g", "i", "o", "n">>)
        [] k = 3 -> Lit(<<"C", "o", "u", "n", "t", "r", "y">>))

\* `key in address`, for the k-th address key
InAddress(address, k) ==
  CASE address.t = "dict" -> HasKey(address, AddressKeys[k])
    [] address.t = "str" -> Contains(address.s, AddressKeyText(k))
    [] address.t = "list" ->
         \E i \in 1..Len(address.v) : address.v[i] = PyStr(AddressKeyText(k))
    [] OTHER -> FALSE

\* _parse_json_ld_location
_parse_json_ld_location(address) ==
  IF ~Truthy(address) THEN PyNone
  ELSE IF address.t \notin {"dict", "str", "list"} THEN Raise
  ELSE IF address.t # "dict"
       THEN IF \E k \in 1..3 : InAddress(address, k) THEN Raise ELSE PyNone
  ELSE LET present == {k \in 1..3 : InAddress(address, k)}
           parts == [k \in 1..3 |-> IF k \in present THEN address.f[AddressKeys[k]]
                                    ELSE PyNone]
           texts == SelectSeq([k \in 1..3 |-> IF k \in present /\ parts[k].t = "str"
                                               THEN <<parts[k].s>> ELSE <<>>],
                              LAMBDA x : x # <<>>)
       IN IF present = {} THEN PyNone
          ELSE IF \E k \in present : parts[k].t # "str" THEN Raise
          ELSE PyStr(Join(Lit(<<",", " ">>), [i \in 1..Len(texts) |-> texts[i][1]]))

\* _parse_json_ld_stats
_parse_json_ld_stats(json_data) ==
  IF HasKey(json_data, "interactionStatistic")
       /\ json_data.f["interactionStatistic"].t = "dict"
       /\ HasKey(json_data.f["interactionStatistic"], "userInteractionCount")
  THEN SetKey(EmptyDict, "followers",
              PyStr(Str(json_data.f["interactionStatistic"].f["userInteractionCount"])))
  ELSE EmptyDict

\* _parse_json_ld_duration
_parse_json_ld_duration(member) ==
  LET start == Get(member, "startDate", PyNone)
      end == Get(member, "endDate", PyNone)
  IN IF ~Truthy(start) THEN PyNone
     ELSE PyStr(Cat(Cat(Str(start), Lit(<<" ", "-", " ">>)),
                    IF Truthy(end) THEN Str(end)
                    ELSE Lit(<<"P", "r", "e", "s", "e", "n", "t">>)))

\* isinstance(v, dict) ? v : {}
DictOrEmpty(v) == IF v.t = "dict" THEN v ELSE EmptyDict

\* a or b
Or(a, b) == IF Truthy(a) THEN a ELSE b

TextAt == Lit(<<" ", "a", "t", " ">>)

\* text.rsplit(' at ', 1), for a text that holds ' at '
SplitAtLast(text) ==
  LET hits == {i \in 1..Len(text) : OccursAt(TextAt, text, i)}
      i == CHOOSE k \in hits : \A l \in hits : k >= l
      last == i + Len(TextAt) - 1
  IN <<Cat(SubSeq(text, 1, i - 1),
           IF text[i].n > 1 THEN Run(" ", text[i].n - 1) ELSE <<>>),
       Cat(IF text[last].n > 1 THEN Run(" ", text[last].n - 1) ELSE <<>>,
           SubSeq(text, last + 1, Len(text)))>>

\* text.split(' at ', 1), for a text that holds ' at '
SplitAt(text) ==
  LET hits == {i \in 1..Len(text) : OccursAt(TextAt, text, i)}
      i == CHOOSE k \in hits : \A l \in hits : k <= l
      last == i + Len(TextAt) - 1
  IN <<Cat(SubSeq(text, 1, i - 1),
           IF text[i].n > 1 THEN Run(" ", text[i].n - 1) ELSE <<>>),
       Cat(IF text[last].n > 1 THEN Run(" ", text[last].n - 1) ELSE <<>>,
           SubSeq(text, last + 1, Len(text)))>>

RECURSIVE WithoutStars(_)
\* text.replace('*', '')
WithoutStars(text) ==
  IF text = <<>> THEN <<>>
  ELSE IF text[1].c = "*" THEN WithoutStars(Tail(text))
  ELSE Cat(<<text[1]>>, WithoutStars(Tail(text)))

\* `' at ' in org_name` raises, or holds of a value without a split method
AtTestRaises(org_name) ==
  CASE org_name.t = "str" -> FALSE
    [] org_name.t = "list" ->
         \E i \in 1..Len(org_name.v) : org_name.v[i] = PyStr(TextAt)
    [] org_name.t = "dict" -> HasKey(org_name, " at ")
    [] OTHER -> TRUE

\* the body of the loop of _parse_json_ld_experience for one dict
WorkEntry(work) ==
  LET org_name == Get(work, "name", PyStr(<<>>))
      member == DictOrEmpty(Get(work, "member", EmptyDict))
      description == Get(member, "description", PyStr(<<>>))
  IN IF AtTestRaises(org_name) THEN Raise
     ELSE IF Truthy(description) /\ description.t # "str" THEN Raise
     ELSE
       LET split == org_name.t = "str" /\ Contains(org_name.s, TextAt)
           title == IF split THEN PyStr(Strip(SplitAt(org_name.s)[1]))
                    ELSE IF Truthy(org_name)
                    THEN Get(member, "roleName", PyStr(Lit(<<"P", "o", "s", "i", "t", "i", "o", "n">>)))
                    ELSE org_name
           company == IF split THEN PyStr(Strip(SplitAt(org_name.s)[2]))
                      ELSE IF Truthy(org_name) THEN org_name
                      ELSE PyNone
           cleaned == IF Truthy(description) THEN PyStr(WithoutStars(description.s))
                      ELSE description
       IN PyDict([k \in {"title", "company", "employment_type", "duration",
                         "location", "description", "skills"} |->
                    CASE k = "title" -> title
                      [] k = "company" ->
                           Or(company, Or(org_name, PyStr(Lit(<<"C", "o", "m", "p", "a", "n", "y">>))))
                      [] k = "employment_type" -> Get(member, "employmentType", PyNone)
                      [] k = "duration" -> _parse_json_ld_duration(member)
                      [] k = "location" ->
                           Or(Get(work, "location", PyNone), Get(member, "location", PyNone))
                      [] k = "description" -> IF Truthy(cleaned) THEN cleaned ELSE PyNone
                      [] k = "skills" -> PyList(<<>>)])

\* the body of the loop of _parse_json_ld_education for one dict
EducationEntry(edu) ==
  LET member == DictOrEmpty(Get(edu, "member", EmptyDict)) IN
  PyDict([k \in {"institution", "degree", "field", "duration", "grade",
                 "activities", "description"} |->
            CASE k = "institution" ->
                   Get(edu, "name", PyStr(Lit(<<"I", "n", "s", "t", "i", "t", "u", "t", "i", "o", "n">>)))
              [] k = "duration" -> _parse_json_ld_duration(member)
              [] OTHER -> PyNone])

\* the body of the loop of _parse_json_ld_languages for one dict or string
LanguageEntry(lang) ==
  PyDict([k \in {"name", "proficiency"} |->
            CASE k = "name" ->
                   IF lang.t = "dict"
                   THEN Get(lang, "name", PyStr(Lit(<<"L", "a", "n", "g", "u", "a", "g", "e">>)))
                   ELSE lang
              [] OTHER -> PyNone])

RECURSIVE MapEntries(_, _)
\* the list one of the three loops builds from its items
MapEntries(kind, values) ==
  IF values = <<>> THEN PyList(<<>>)
  ELSE LET v == values[1]
           skipped == IF kind = "languages" THEN v.t \notin {"dict", "str"}
                      ELSE v.t # "dict"
           entry == CASE kind = "experience" -> WorkEntry(v)
                      [] kind = "education" -> EducationEntry(v)
                      [] kind = "languages" -> LanguageEntry(v)
           rest == MapEntries(kind, Tail(values))
       IN IF skipped THEN rest
          ELSE IF entry = Raise \/ rest = Raise THEN Raise
          ELSE PyList(<<entry>> \o rest.v)

RECURSIVE Chars(_)
\* the one-character strings `for x in text` yields
Chars(text) ==
  IF text = <<>> THEN <<>>
  ELSE <<PyStr(Run(text[1].c, 1))>>
         \o Chars(IF text[1].n > 1 THEN <<[text[1] EXCEPT !.n = @ - 1]>> \o Tail(text)
                  ELSE Tail(text))

\* _parse_json_ld_experience, _parse_json_ld_education and
\* _parse_json_ld_languages: `if not value: return []`, then the loop
ParseJsonLdList(kind, value) ==
  IF ~Truthy(value) THEN PyList(<<>>)
  ELSE IF NotIterable(value) \/ value.t = "bool" THEN Raise
  ELSE MapEntries(kind, CASE value.t = "list" -> value.v
                          [] value.t = "str" -> Chars(value.s)
                          [] value.t = "dict" /\ kind # "languages" -> <<>>)

_parse_json_ld_experience(works_for) == ParseJsonLdList("experience", works_for)
_parse_json_ld_education(alumni_of) == ParseJsonLdList("education", alumni_of)
_parse_json_ld_languages(languages) == ParseJsonLdList("languages", languages)

\* the keys of profile_data, in the order of the dict display
ProfileKeys ==
  <<"username", "name", "headline", "location", "profile_picture_url", "about",
    "contact_info", "stats", "experience", "education", "skills",
    "certifications", "languages", "volunteer", "projects", "publications",
    "honors", "courses">>

KeySet == {ProfileKeys[i] : i \in 1..Len(ProfileKeys)}

\* the user name _parse_json_ld computes
JsonLdUsername(json_data) ==
  IF ~HasKey(json_data, "sameAs") THEN PyStr(LinkedinProfile)
  ELSE IF json_data.f["sameAs"].t # "str" THEN Raise
  ELSE IF SearchProfilePath(json_data.f["sameAs"].s) # <<>>
       THEN PyStr(SearchProfilePath(json_data.f["sameAs"].s))
       ELSE PyStr(LinkedinProfile)

\* the headline _parse_json_ld computes
JsonLdHeadline(json_data) ==
  LET jobTitle == Get(json_data, "jobTitle", PyNone) IN
  IF jobTitle.t = "list"
  THEN IF jobTitle.v = <<>> THEN Raise ELSE jobTitle.v[1]
  ELSE jobTitle

\* the picture _parse_json_ld computes
JsonLdPicture(json_data) ==
  IF HasKey(json_data, "image") /\ json_data.f["image"].t = "dict"
  THEN Get(json_data.f["image"], "contentUrl", PyNone)
  ELSE PyNone

\* the entries of the dict _parse_json_ld returns
JsonLdFields(json_data) ==
  [k \in KeySet |->
     CASE k = "username" -> JsonLdUsername(json_data)
       [] k = "name" -> Get(json_data, "name", PyStr(NameNotFound))
       [] k = "headline" -> JsonLdHeadline(json_data)
       [] k = "location" -> _parse_json_ld_location(Get(json_data, "address", EmptyDict))
       [] k = "profile_picture_url" -> JsonLdPicture(json_data)
       [] k = "about" -> Get(json_data, "disambiguatingDescription", PyNone)
       [] k = "contact_info" -> EmptyDict
       [] k = "stats" -> _parse_json_ld_stats(json_data)
       [] k = "experience" ->
            _parse_json_ld_experience(Get(json_data, "worksFor", PyList(<<>>)))
       [] k = "education" ->
            _parse_json_ld_education(Get(json_data, "alumniOf", PyList(<<>>)))
       [] k = "languages" ->
            _parse_json_ld_languages(Get(json_data, "knowsLanguage", PyList(<<>>)))
       [] k = "honors" -> Get(json_data, "awards", PyList(<<>>))
       [] OTHER -> PyList(<<>>)]

\* _parse_json_ld: the dict, or Raise when the evaluation of an entry raises
_parse_json_ld(json_data) ==
  IF \E k \in KeySet : JsonLdFields(json_data)[k] = Raise THEN Raise
  ELSE PyDict(JsonLdFields(json_data))

(***************************************************************************)
(* The experience section.  soup.experience is None when no section is     *)
(* found, else the lists (ul) the section holds at its top level.  A list  *)
(* is a sequence of items (li); an item has the elements of its own        *)
(* heading, in document order, each with the kind of selector context it   *)
(* stands in and its text, followed by the lists nested in the item.       *)
(***************************************************************************)
Span(kind, text) == [kind |-> kind, text |-> text]
Li(spans, uls) == [t |-> "li", spans |-> spans, uls |-> uls]
Section(uls) == [t |-> "section", uls |-> uls]

\* the element kinds each selector of title_selectors matches
TitleSelectors ==
  <<{"flex-center"}, {"flex-center", "flex"}, {"entity-title"},
    {"bold", "mr1-bold"}, {"h3"}, {"mr1-bold"}, {"role-details"}>>

\* the element kinds each selector of company_selectors matches
CompanySelectors ==
  <<{"t14", "t14-light"}, {"secondary-div"}, {"secondary-span"},
    {"company-name"}, {"company-link"}>>

RECURSIVE SpansOfList(_)
RECURSIVE SpansOfLists(_)
\* the elements below an item, in document order
SpansOf(li) == li.spans \o SpansOfLists(li.uls)
SpansOfList(ul) ==
  IF ul = <<>> THEN <<>> ELSE SpansOf(ul[1]) \o SpansOfList(Tail(ul))
SpansOfLists(uls) ==
  IF uls = <<>> THEN <<>> ELSE SpansOfList(uls[1]) \o SpansOfLists(Tail(uls))

RECURSIVE FirstOfKind(_, _)
FirstOfKind(spans, kinds) ==
  IF spans = <<>> THEN PyNone
  ELSE IF spans[1].kind \in kinds THEN spans[1]
  ELSE FirstOfKind(Tail(spans), kinds)

\* li.select_one(selector): the first element below li the selector matches
select_one(li, kinds) == FirstOfKind(SpansOf(li), kinds)

\* _safe_extract(li, selector)
_safe_extract(li, kinds) ==
  LET found == select_one(li, kinds) IN
  IF found # PyNone THEN PyStr(Strip(found.text)) ELSE PyNone

RECURSIVE ListsBelowList(_)
RECURSIVE ListsBelow(_)
\* select('ul'): the lists below a sequence of lists, themselves included,
\* in document order
ListsBelow(uls) ==
  IF uls = <<>> THEN <<>>
  ELSE <<uls[1]>> \o ListsBelowList(uls[1]) \o ListsBelow(Tail(uls))
ListsBelowList(ul) ==
  IF ul = <<>> THEN <<>>
  ELSE ListsBelow(ul[1].uls) \o ListsBelowList(Tail(ul))

RECURSIVE Flatten(_)
\* the concatenation of a sequence of sequences
Flatten(seqs) == IF seqs = <<>> THEN <<>> ELSE seqs[1] \o Flatten(Tail(seqs))

\* the items of every list container of the section, container by container
SectionItems(section) == Flatten(ListsBelow(section.uls))

\* the threshold of the grouping heuristic
TitleLimit == 200

\* a nested item shows a role title
HasRoleTitle(nested_item) ==
  LET title_elem == select_one(nested_item, TitleSelectors[1]) IN
  /\ title_elem # PyNone
  /\ StrLen(Strip(title_elem.text)) > 0
  /\ StrLen(Strip(title_elem.text)) < TitleLimit

\* the classifier without the upper bound on the title length
IsTrulyGroupedNoLimit(li) ==
  /\ li.uls # <<>>
  /\ \E n \in 1..Len(li.uls[1]) :
       LET title_elem == select_one(li.uls[1][n], TitleSelectors[1]) IN
       title_elem # PyNone /\ StrLen(Strip(title_elem.text)) > 0

\* the grouping classifier: is_truly_grouped after the check of an item
IsTrulyGrouped(li) ==
  /\ li.uls # <<>>
  /\ LET nested_list == li.uls[1] IN
     \E n \in 1..Len(nested_list) : HasRoleTitle(nested_list[n])

RECURSIVE FirstTruthy(_, _, _)
\* the first truthy _safe_extract over a list of selectors other than
\* the text `except`, or None
FirstTruthy(li, selectors, except) ==
  IF selectors = <<>> THEN PyNone
  ELSE LET text == _safe_extract(li, selectors[1]) IN
       IF Truthy(text) /\ text # except THEN text
       ELSE FirstTruthy(li, Tail(selectors), except)

\* _extract_single_experience: the title and the company of the entry
_extract_single_experience(li) ==
  LET title == FirstTruthy(li, TitleSelectors, PyNone)
      exp1 == IF title # PyNone THEN SetKey(EmptyDict, "title", title) ELSE EmptyDict
      company == FirstTruthy(li, CompanySelectors, Get(exp1, "title", PyNone))
      exp2 == IF company # PyNone THEN SetKey(exp1, "company", company) ELSE exp1
  IN IF Truthy(exp2) THEN exp2 ELSE PyNone

\* li.select('ul > li'): every item of every list below li
ItemsBelow(li) == Flatten(ListsBelow(li.uls))

RECURSIVE RolesUnfiltered(_)
\* the roles when a nested item without a title gives a role as well
RolesUnfiltered(nested_items) ==
  IF nested_items = <<>> THEN <<>>
  ELSE LET title_elem == select_one(nested_items[1], TitleSelectors[2])
           role == IF title_elem # PyNone
                   THEN SetKey(EmptyDict, "title", PyStr(Strip(title_elem.text)))
                   ELSE EmptyDict
       IN <<role>> \o RolesUnfiltered(Tail(nested_items))

RECURSIVE Roles(_)
\* the roles of the nested items that show a title
Roles(nested_items) ==
  IF nested_items = <<>> THEN <<>>
  ELSE LET title_elem == select_one(nested_items[1], TitleSelectors[2])
           role == IF title_elem # PyNone
                   THEN SetKey(EmptyDict, "title", PyStr(Strip(title_elem.text)))
                   ELSE EmptyDict
       IN (IF Truthy(Get(role, "title", PyNone)) THEN <<role>> ELSE <<>>)
            \o Roles(Tail(nested_items))

\* _extract_grouped_experience: the company and the roles of the entry
_extract_grouped_experience(li) ==
  LET company_elem == select_one(li, TitleSelectors[2])
      exp1 == IF company_elem # PyNone
              THEN SetKey(EmptyDict, "company", PyStr(Strip(company_elem.text)))
              ELSE EmptyDict
      roles == Roles(ItemsBelow(li))
  IN IF roles # <<>>
     THEN SetKey(SetKey(exp1, "roles", PyList(roles)), "is_grouped", PyBool(TRUE))
     ELSE PyNone

\* the entries appended when a grouped item without roles is extracted
\* again as a single position
AppendedDegrading(li) ==
  LET g == IF IsTrulyGrouped(li) THEN _extract_grouped_experience(li) ELSE PyNone
      e == IF Truthy(g) THEN g ELSE _extract_single_experience(li)
  IN IF Truthy(g) \/ (Truthy(e) /\ Truthy(Get(e, "title", PyNone))) THEN <<e>> ELSE <<>>

\* the entries one pass of the loop over the items appends
Appended(li) ==
  IF IsTrulyGrouped(li)
  THEN LET e == _extract_grouped_experience(li) IN
       IF Truthy(e) THEN <<e>> ELSE <<>>
  ELSE LET e == _extract_single_experience(li) IN
       IF Truthy(e) /\ Truthy(Get(e, "title", PyNone)) THEN <<e>> ELSE <<>>

RECURSIVE ExperiencesOf(_)
ExperiencesOf(lis) ==
  IF lis = <<>> THEN <<>> ELSE Appended(lis[1]) \o ExperiencesOf(Tail(lis))

_extract_experience(s) ==
  IF s.experience = PyNone THEN PyList(<<>>)
  ELSE PyList(ExperiencesOf(SectionItems(s.experience)))

(***************************************************************************)
(* Contact details and statistics.  soup.contact and soup.stats hold, for  *)
(* every selector of SELECTORS['contact'] and SELECTORS['stats'], what the *)
(* selector finds.                                                         *)
(***************************************************************************)
\* the elements soup.select answers
Elems(elements) == [m |-> "elems", v |-> elements]

\* an element with an href attribute (None without the attribute)
Link(href) == [m |-> "elem", href |-> href]

TextMailto == Lit(<<"m", "a", "i", "l", "t", "o", ":">>)

RECURSIVE RemoveMailto(_)
\* href.replace('mailto:', '')
RemoveMailto(href) ==
  LET hits == {i \in 1..Len(href) : OccursAt(TextMailto, href, i)} IN
  IF hits = {} THEN href
  ELSE LET i == CHOOSE k \in hits : \A l \in hits : k <= l
           last == i + Len(TextMailto) - 1
       IN Cat(Cat(SubSeq(href, 1, i - 1),
                  IF href[i].n > 1 THEN Run("m", href[i].n - 1) ELSE <<>>),
              RemoveMailto(Cat(IF href[last].n > 1 THEN Run(":", href[last].n - 1)
                                ELSE <<>>,
                               SubSeq(href, last + 1, Len(href)))))

\* c in s, for one character c
HasChar(s, c) == \E i \in 1..Len(s) : s[i].c = c

RECURSIVE EmailFrom(_, _)
\* the email loop from selector i on: the address, or None
EmailFrom(s, i) ==
  IF i > Len(s.contact.email) THEN PyNone
  ELSE LET element == s.contact.email[i] IN
       IF element.m = "elem" /\ Truthy(element.href)
            /\ HasChar(RemoveMailto(element.href.s), "@")
       THEN PyStr(RemoveMailto(element.href.s))
       ELSE EmailFrom(s, i + 1)

RECURSIVE PhoneFrom(_, _)
\* the phone loop from selector i on
PhoneFrom(s, i) ==
  IF i > Len(s.contact.phone) THEN PyNone
  ELSE LET element == s.contact.phone[i] IN
       IF element.m = "elem" /\ get_text(element, <<>>) # <<>>
       THEN PyStr(get_text(element, <<>>))
       ELSE PhoneFrom(s, i + 1)

TextLinkedinCom ==
  Lit(<<"l", "i", "n", "k", "e", "d", "i", "n", ".", "c", "o", "m">>)

RECURSIVE FirstWebsite(_)
\* the first href of the elements that does not point to linkedin.com
FirstWebsite(elements) ==
  IF elements = <<>> THEN PyNone
  ELSE LET href == IF elements[1].href = PyNone THEN PyStr(<<>>)
                   ELSE elements[1].href
       IN IF Truthy(href) /\ ~Contains(href.s, TextLinkedinCom) THEN href
          ELSE FirstWebsite(Tail(elements))

RECURSIVE WebsiteFrom(_, _)
\* the website loop from selector i on; soup.contact.website[i] is the
\* elements soup.select answers, or Raises
WebsiteFrom(s, i) ==
  IF i > Len(s.contact.website) THEN PyNone
  ELSE IF s.contact.website[i].m = "elems"
            /\ FirstWebsite(s.contact.website[i].v) # PyNone
  THEN FirstWebsite(s.contact.website[i].v)
  ELSE WebsiteFrom(s, i + 1)

\* the dict whose keys are the entries of found that are not None
Collected(found) ==
  PyDict([k \in {x \in DOMAIN found : found[x] # PyNone} |-> found[k]])

_extract_contact_info(s) ==
  Collected([email |-> EmailFrom(s, 1), phone |-> PhoneFrom(s, 1),
             website |-> WebsiteFrom(s, 1)])

IsDigit(c) == c \in {"0", "1", "2", "3", "4", "5", "6", "7", "8", "9"}

RECURSIVE NumberTail(_)
\* what [\d,]* matches at the head of text
NumberTail(text) ==
  IF text # <<>> /\ (IsDigit(text[1].c) \/ text[1].c = ",")
  THEN <<text[1]>> \o NumberTail(Tail(text))
  ELSE <<>>

RECURSIVE FirstNumber(_)
\* re.findall(r'\d+[\d,]*', text)[0], the empty string for no match
FirstNumber(text) ==
  IF text = <<>> THEN <<>>
  ELSE IF IsDigit(text[1].c) THEN NumberTail(text)
  ELSE FirstNumber(Tail(text))

RECURSIVE CountFrom(_, _)
\* a loop of _extract_stats over the elements of its selectors
CountFrom(elements, i) ==
  IF i > Len(elements) THEN PyNone
  ELSE IF elements[i].m = "elem" /\ FirstNumber(get_text(elements[i], <<>>)) # <<>>
  THEN PyStr(FirstNumber(get_text(elements[i], <<>>)))
  ELSE CountFrom(elements, i + 1)

_extract_stats(s) ==
  Collected([connections |-> CountFrom(s.stats.connections, 1),
             followers |-> CountFrom(s.stats.followers, 1)])

(***************************************************************************)
(* The education section.  soup.education is None when no section is      *)
(* found, else the items the first matching item selector finds in it.     *)
(***************************************************************************)
FoundItems(items) == [t |-> "section", items |-> items]

InstitutionSelectors ==
  <<{"flex-center"}, {"h3"}, {"bold", "mr1-bold"}, {"school-name"}>>

DegreeSelectors == <<{"t14", "t14-light"}, {"degree-name"}, {"secondary-p"}>>

FieldSelectors == <<{"t14", "t14-light"}, {"fos-span"}, {"fos-p"}>>

DurationSelectors == <<{"t14-light"}, {"dates-second"}, {"dates"}>>

GradeSelectors == <<{"grade"}, {"grade-div"}>>

ActivitiesSelectors == <<{"extra-details"}, {"activities"}>>

DescriptionSelectors == <<{"see-more"}, {"inline-show-more"}, {"description"}>>

\* the lower bounds on the lengths of a duration, of the activities and of
\* a description
DurationMin == 4
ActivitiesMin == 5
DescriptionMin == 10

\* the first _safe_extract over the selectors that is truthy and passes
\* Ok, or None
FirstPassing(li, selectors, Ok(_)) ==
  LET hits == {i \in 1..Len(selectors) :
                 /\ Truthy(_safe_extract(li, selectors[i]))
                 /\ Ok(_safe_extract(li, selectors[i]).s)}
  IN IF hits = {} THEN PyNone
     ELSE _safe_extract(li, selectors[CHOOSE i \in hits : \A j \in hits : i <= j])

RECURSIVE BeforeComma(_)
\* text.split(',', 1)[0]
BeforeComma(text) ==
  IF text = <<>> \/ text[1].c = "," THEN <<>>
  ELSE <<text[1]>> \o BeforeComma(Tail(text))

RECURSIVE AfterComma(_)
\* text.split(',', 1)[1], for a text that holds a comma
AfterComma(text) ==
  IF text[1].c = ","
  THEN (IF text[1].n > 1 THEN Run(",", text[1].n - 1) ELSE <<>>) \o Tail(text)
  ELSE AfterComma(Tail(text))

RECURSIVE SelectAll(_, _)
\* li.select(selector): the elements below li the selector matches
SelectAll(spans, kinds) ==
  IF spans = <<>> THEN <<>>
  ELSE (IF spans[1].kind \in kinds THEN <<spans[1]>> ELSE <<>>)
         \o SelectAll(Tail(spans), kinds)

RECURSIVE FieldFrom(_, _, _, _)
\* the loops over field_selectors: the first text that is neither empty nor
\* the degree nor the institution
FieldFrom(li, selectors, degree, institution) ==
  IF selectors = <<>> THEN PyNone
  ELSE LET texts == [k \in 1..Len(SelectAll(SpansOf(li), selectors[1])) |->
                       Strip(SelectAll(SpansOf(li), selectors[1])[k].text)]
           hits == {k \in 1..Len(texts) :
                      /\ texts[k] # <<>>
                      /\ PyStr(texts[k]) # degree
                      /\ PyStr(texts[k]) # institution}
       IN IF hits # {}
          THEN PyStr(texts[CHOOSE k \in hits : \A l \in hits : k <= l])
          ELSE FieldFrom(li, Tail(selectors), degree, institution)

\* d with d[k] = v when v is not None, else d
SetFound(d, k, v) == IF v # PyNone THEN SetKey(d, k, v) ELSE d

TextPresent == Lit(<<"P", "r", "e", "s", "e", "n", "t">>)

\* edu["degree"]: the text before the first comma of the degree text
DegreeOf(degree_text) ==
  IF degree_text # PyNone /\ HasChar(degree_text.s, ",")
  THEN PyStr(Strip(BeforeComma(degree_text.s)))
  ELSE degree_text

\* edu["field"]: the text after the first comma of the degree text, or else
\* what the field selectors find
FieldOf(li, degree_text, institution) ==
  IF degree_text # PyNone /\ HasChar(degree_text.s, ",")
  THEN PyStr(Strip(AfterComma(degree_text.s)))
  ELSE FieldFrom(li, FieldSelectors, degree_text, institution)

\* the values found for the keys of edu, None for a key that is not set
FoundValues(li) ==
  [institution |-> FirstPassing(li, InstitutionSelectors, LAMBDA t : TRUE),
   degree |-> DegreeOf(FirstPassing(li, DegreeSelectors, LAMBDA t : TRUE)),
   field |-> FieldOf(li, FirstPassing(li, DegreeSelectors, LAMBDA t : TRUE),
                     FirstPassing(li, InstitutionSelectors, LAMBDA t : TRUE)),
   duration |-> FirstPassing(li, DurationSelectors,
                             LAMBDA t : \/ HasChar(t, "-")
                                        \/ Contains(t, TextPresent)
                                        \/ StrLen(t) >= DurationMin),
   grade |-> FirstPassing(li, GradeSelectors, LAMBDA t : TRUE),
   activities |-> FirstPassing(li, ActivitiesSelectors,
                               LAMBDA t : StrLen(t) > ActivitiesMin),
   description |-> FirstPassing(li, DescriptionSelectors,
                                LAMBDA t : StrLen(t) > DescriptionMin)]

\* the dict of the keys that were set
DictOfFound(found) ==
  PyDict([k \in {key \in DOMAIN found : found[key] # PyNone} |-> found[k]])

_extract_single_education(li) ==
  IF \A k \in DOMAIN FoundValues(li) : FoundValues(li)[k] = PyNone THEN PyNone
  ELSE DictOfFound(FoundValues(li))

\* the education entries kept when both mandatory fields are required
EducationKeptBoth(li) ==
  LET edu == _extract_single_education(li) IN
  IF Truthy(edu) /\ Truthy(Get(edu, "institution", PyNone))
       /\ Truthy(Get(edu, "degree", PyNone))
  THEN <<edu>> ELSE <<>>

\* the entries one pass of the loop over the education items appends
EducationKept(li) ==
  LET edu == _extract_single_education(li) IN
  IF Truthy(edu) /\ (Truthy(Get(edu, "institution", PyNone))
                       \/ Truthy(Get(edu, "degree", PyNone)))
  THEN <<edu>> ELSE <<>>

RECURSIVE EducationOf(_)
EducationOf(lis) ==
  IF lis = <<>> THEN <<>> ELSE EducationKept(lis[1]) \o EducationOf(Tail(lis))

_extract_education(s) ==
  IF s.education = PyNone THEN PyList(<<>>)
  ELSE PyList(EducationOf(s.education.items))

(***************************************************************************)
(* The skills section.  soup.skills is None when no section is found,      *)
(* else the skill items of the section and, for the fallback scan, the     *)
(* div elements of the section whose class holds "skill".                  *)
(***************************************************************************)
SkillSection(items, elements) ==
  [t |-> "section", items |-> items, elements |-> elements]

SkillNameSelectors ==
  <<{"flex-center"}, {"skill-name-span"}, {"bold", "mr1-bold"}, {"skill-name-p"}>>

EndorsementSelectors ==
  <<{"t14-light", "t14-black-light"}, {"endorsement-count"}, {"button-bold"}>>

\* the upper bound on the length of a skill name
SkillNameLimit == 100

RECURSIVE DigitsHead(_)
\* what \d+ matches at the head of text
DigitsHead(text) ==
  IF text # <<>> /\ IsDigit(text[1].c)
  THEN <<text[1]>> \o DigitsHead(Tail(text))
  ELSE <<>>

RECURSIVE FirstDigits(_)
\* re.findall(r'\d+', text)[0], the empty string for no match
FirstDigits(text) ==
  IF text = <<>> THEN <<>>
  ELSE IF IsDigit(text[1].c) THEN DigitsHead(text)
  ELSE FirstDigits(Tail(text))

DigitValue(c) ==
  CASE c = "0" -> 0 [] c = "1" -> 1 [] c = "2" -> 2 [] c = "3" -> 3 [] c = "4" -> 4
    [] c = "5" -> 5 [] c = "6" -> 6 [] c = "7" -> 7 [] c = "8" -> 8 [] c = "9" -> 9

RECURSIVE ToInt(_, _)
\* int(digits), acc being the value of the digits read so far
ToInt(digits, acc) ==
  IF digits = <<>> THEN acc
  ELSE ToInt(IF digits[1].n > 1 THEN <<[digits[1] EXCEPT !.n = @ - 1]>> \o Tail(digits)
             ELSE Tail(digits),
             10 * acc + DigitValue(digits[1].c))

RECURSIVE EndorsementsFrom(_, _)
\* the loop over endorsement_selectors: the count, or None
EndorsementsFrom(li, selectors) ==
  IF selectors = <<>> THEN PyNone
  ELSE LET element == select_one(li, selectors[1]) IN
       IF element # PyNone /\ FirstDigits(Strip(element.text)) # <<>>
       THEN PyNum(ToInt(FirstDigits(Strip(element.text)), 0))
       ELSE EndorsementsFrom(li, Tail(selectors))

_extract_single_skill(li) ==
  LET name == FirstPassing(li, SkillNameSelectors, LAMBDA t : StrLen(t) < SkillNameLimit)
      skill1 == SetFound(EmptyDict, "name", name)
      skill2 == SetFound(skill1, "endorsements", EndorsementsFrom(li, EndorsementSelectors))
      skill3 == IF ~HasKey(skill2, "endorsements") /\ HasKey(skill2, "name")
                THEN SetKey(skill2, "endorsements", PyNum(0))
                ELSE skill2
  IN IF Truthy(skill3) THEN skill3 ELSE PyNone

RECURSIVE DetailedSkills(_)
\* the loop over skill_items
DetailedSkills(items) ==
  IF items = <<>> THEN <<>>
  ELSE LET skill_data == _extract_single_skill(items[1]) IN
       (IF Truthy(skill_data) /\ Truthy(Get(skill_data, "name", PyNone))
        THEN <<skill_data>> ELSE <<>>) \o DetailedSkills(Tail(items))

RECURSIVE FallbackSkills(_, _)
\* the loop over skill_elements, skills being the list built so far
FallbackSkills(elements, skills) ==
  IF elements = <<>> THEN skills
  ELSE LET skill_name == get_text(elements[1], <<>>) IN
       FallbackSkills(Tail(elements),
                      IF /\ skill_name # <<>>
                         /\ StrLen(skill_name) < SkillNameLimit
                         /\ ~\E i \in 1..Len(skills) : skills[i].f["name"] = PyStr(skill_name)
                      THEN Append(skills, PyDict(("name" :> PyStr(skill_name))
                                                   @@ ("endorsements" :> PyNum(0))))
                      ELSE skills)

RECURSIVE UniqueExact(_, _)
\* the de-duplication when names are compared as they are written
UniqueExact(skills, seen) ==
  IF skills = <<>> THEN <<>>
  ELSE LET skill_name == Get(skills[1], "name", PyStr(<<>>)).s IN
       IF skill_name # <<>> /\ skill_name \notin seen
       THEN <<skills[1]>> \o UniqueExact(Tail(skills), seen \cup {skill_name})
       ELSE UniqueExact(Tail(skills), seen)

RECURSIVE Unique(_, _)
\* the de-duplication loop, seen being the set of the lower-case names met
Unique(skills, seen) ==
  IF skills = <<>> THEN <<>>
  ELSE LET skill_name == Lower(Get(skills[1], "name", PyStr(<<>>)).s) IN
       IF skill_name # <<>> /\ skill_name \notin seen
       THEN <<skills[1]>> \o Unique(Tail(skills), seen \cup {skill_name})
       ELSE Unique(Tail(skills), seen)

_extract_skills(s) ==
  IF s.skills = PyNone THEN PyList(<<>>)
  ELSE PyList(Unique(IF s.skills.items # <<>> THEN DetailedSkills(s.skills.items)
                     ELSE FallbackSkills(s.skills.elements, <<>>),
                     {}))

(***************************************************************************)
(* parse.  The extractors of the sections other than experience,           *)
(* education and skills are taken by their results: soup.sections[k] is the list the extractor of section *)
(* k returns for the document.                                             *)
(***************************************************************************)
OtherSections ==
  {"certifications", "languages", "volunteer", "projects", "publications",
   "honors", "courses"}

\* the dict display that opens parse
ExtractHtml(s) ==
  [k \in KeySet |->
     CASE k = "username" -> _extract_username(s)
       [] k = "name" -> _extract_name(s)
       [] k = "headline" -> _extract_headline(s)
       [] k = "location" -> _extract_location(s)
       [] k = "profile_picture_url" -> _extract_profile_picture(s)
       [] k = "about" -> _extract_about(s)
       [] k = "contact_info" -> _extract_contact_info(s)
       [] k = "stats" -> _extract_stats(s)
       [] k = "experience" -> _extract_experience(s)
       [] k = "education" -> _extract_education(s)
       [] k = "skills" -> _extract_skills(s)
       [] OTHER -> s.sections[k]]

\* the merge loop that overwrites whatever the DOM found
MergeOverwriting(data, json_ld_profile) ==
  PyDict([k \in KeySet |->
            IF Truthy(json_ld_profile.f[k]) THEN json_ld_profile.f[k]
            ELSE data.f[k]])

\* the merge loop: `if not profile_data.get(key) and value`
Merge(data, json_ld_profile) ==
  PyDict([k \in KeySet |->
            IF ~Truthy(data.f[k]) /\ Truthy(json_ld_profile.f[k])
            THEN json_ld_profile.f[k]
            ELSE data.f[k]])

\* the keys with a truthy value, in the order of the dict, username included
NonEmptySectionsAll(data) ==
  SelectSeq(ProfileKeys, LAMBDA k : Truthy(data.f[k]))

\* the keys with a truthy value, in the order of the dict, username apart
NonEmptySections(data) ==
  SelectSeq(ProfileKeys, LAMBDA k : Truthy(data.f[k]) /\ k # "username")

(***************************************************************************)
(* Documents.                                                              *)
(***************************************************************************)
EmptySel ==
  [f \in BasicFields |-> [i \in 1..NumSelectors[f] |-> NoMatch]]

\* the tree of "<html><body></body></html>"
EmptySoup ==
  [sel |-> EmptySel, canonical |-> PyNone, scripts |-> <<>>,
   experience |-> PyNone, education |-> PyNone, skills |-> PyNone,
   contact |-> [email |-> <<NoMatch, NoMatch>>, phone |-> <<NoMatch, NoMatch>>,
                website |-> <<Elems(<<>>), Elems(<<>>)>>],
   stats |-> [connections |-> <<NoMatch, NoMatch>>, followers |-> <<NoMatch>>],
   sections |-> [k \in OtherSections |-> PyList(<<>>)]]

\* SELECTORS: <<a, b>> when every element matched by selector a of the
\* cascade is matched by its selector b as well
Subsumed ==
  [name |-> {<<2, 1>>, <<2, 6>>},
   headline |-> {<<1, 2>>, <<4, 2>>},
   location |-> {<<1, 2>>, <<3, 2>>},
   profile_photo |-> {},
   about |-> {<<1, 2>>}]

TextJo == Lit(<<"J", "o">>)
TextKa == Lit(<<" ", "K", "a", " ">>)
TextBlank == Run(" ", 2)
TextDev == Lit(<<"D", "e", "v">>)
TextConnection == Lit(<<"c", "o", "n", "n", "e", "c", "t", "i", "o", "n">>)
TextUpperConnection == Lit(<<"C", "o", "n", "n", "e", "c", "t", "i", "o", "n">>)
Text500Connections == Cat(Lit(<<"5", "0", "0", "+", " ">>), Cat(TextConnection, Run("s", 1)))
TextManyCONNECTIONS ==
  Lit(<<"9", " ", "C", "O", "N", "N", "E", "C", "T", "I", "O", "N", "S">>)
TextConnectionRoad == Cat(TextUpperConnection, Lit(<<" ", "R", "d">>))
TextHttpsUrl == Lit(<<"h", "t", "t", "p", "s", ":", "/", "/", "p", ".", "j", "p", "g">>)
TextHttpUrl == Lit(<<"h", "t", "t", "p", ":", "/", "/", "q", ".", "j", "p", "g">>)
TextDataUrl == Lit(<<"d", "a", "t", "a", ":", "x">>)

\* the elements a selector of the cascade of f may find
Candidates(f) ==
  CASE f = "name" ->
         {Elem(<<TextJo>>, PyNone), Elem(<<TextKa>>, PyNone),
          Elem(<<TextBlank>>, PyNone), Elem(<<>>, PyNone),
          Elem(<<TextJo, TextKa>>, PyNone)}
    [] f = "headline" ->
         {Elem(<<TextDev>>, PyNone), Elem(<<Text500Connections>>, PyNone),
          Elem(<<TextManyCONNECTIONS>>, PyNone), Elem(<<TextConnection>>, PyNone),
          Elem(<<TextBlank>>, PyNone)}
    [] f = "location" ->
         {Elem(<<TextKa>>, PyNone), Elem(<<Run("x", 99)>>, PyNone),
          Elem(<<Run("x", 100)>>, PyNone), Elem(<<Text500Connections>>, PyNone),
          Elem(<<TextConnectionRoad>>, PyNone), Elem(<<>>, PyNone)}
    [] f = "profile_photo" ->
         {Elem(<<>>, PyStr(TextHttpsUrl)), Elem(<<>>, PyStr(TextHttpUrl)),
          Elem(<<>>, PyStr(TextDataUrl)), Elem(<<>>, PyNone), Elem(<<>>, PyStr(<<>>))}
    [] f = "about" ->
         {Elem(<<Run("x", 15)>>, PyNone), Elem(<<Run("x", 20)>>, PyNone),
          Elem(<<Run("x", 21)>>, PyNone), Elem(<<Run("y", 25)>>, PyNone),
          Elem(<<Run("x", 10), TextBlank, Run("y", 9)>>, PyNone)}

\* the answers of one cascade: at most MaxMatched selectors find something
Cascades(f) ==
  {c \in [1..NumSelectors[f] -> Candidates(f) \cup {NoMatch, Raises}] :
     /\ Cardinality({i \in 1..NumSelectors[f] : c[i] # NoMatch}) <= MaxMatched
     /\ \A p \in Subsumed[f] : c[p[1]].m = "elem" => c[p[2]] # NoMatch}

\* documents in which the elements of one basic field occur
FieldDocs ==
  UNION {{[EmptySoup EXCEPT !.sel[f] = c] : c \in Cascades(f)} : f \in BasicFields}

(***************************************************************************)
(* Specification of the basic-field extractors: each is applied to a       *)
(* document.                                                               *)
(***************************************************************************)
\* _extract_experience is not running
LoopIdle ==
  /\ item_queue = <<>>
  /\ item = PyNone
  /\ is_truly_grouped = FALSE
  /\ exp = PyNone
  /\ experiences = <<>>

\* no batch is being processed
BatchIdle ==
  /\ profiles = <<>>
  /\ max_concurrent = 3
  /\ semaphore = PyNone
  /\ tasks = <<>>
  /\ results = <<>>

\* no rate limiter is in use
LimiterIdle ==
  /\ now = 0
  /\ limiter = PyNone
  /\ log = <<>>

RestIdle ==
  /\ threads = <<>>
  /\ cache = PyNone
  /\ fs = PyNone

UtilIdle == LimiterIdle /\ RestIdle

InitFields ==
  /\ soup \in FieldDocs
  /\ call = "none"
  /\ pc = "ready"
  /\ ret = PyNone
  /\ profile_data = PyNone
  /\ json_ld_data = PyNone
  /\ LoopIdle
  /\ BatchIdle
  /\ UtilIdle

Return(f, value) ==
  /\ pc = "ready"
  /\ call' = f
  /\ ret' = value
  /\ pc' = "done"
  /\ UNCHANGED <<soup, profile_data, json_ld_data, loop_vars>>
  /\ UNCHANGED batch_vars
  /\ UNCHANGED util_vars

ExtractName == Return("name", _extract_name(soup))
ExtractHeadline == Return("headline", _extract_headline(soup))
ExtractLocation == Return("location", _extract_location(soup))
ExtractProfilePicture == Return("profile_photo", _extract_profile_picture(soup))
ExtractAbout == Return("about", _extract_about(soup))

NextFields ==
  \/ ExtractName
  \/ ExtractHeadline
  \/ ExtractLocation
  \/ ExtractProfilePicture
  \/ ExtractAbout

SpecFields == InitFields /\ [][NextFields]_vars

(***************************************************************************)
(* Properties of the basic-field extractors (SpecFields).                  *)
(***************************************************************************)
\* the value a cascade of field f takes from a found element
CandidateValue(f, element) ==
  CASE f = "profile_photo" -> element.src
    [] f = "about" -> PyStr(get_text(element, ParagraphSep))
    [] OTHER -> PyStr(get_text(element, <<>>))

\* the answer of a selector passes the validity check of field f
Passes(f, answer) ==
  /\ answer.m = "elem"
  /\ CASE f = "name" -> get_text(answer, <<>>) # <<>>
       [] f = "headline" -> HeadlineValid(get_text(answer, <<>>))
       [] f = "location" -> LocationValid(get_text(answer, <<>>))
       [] f = "profile_photo" -> PictureValid(answer.src)
       [] f = "about" -> AboutValid(get_text(answer, ParagraphSep))

\* the answers the finished call was given
Answers == soup.sel[call]

NonePasses == \A i \in DOMAIN Answers : ~Passes(call, Answers[i])

\* C4: a basic-field cascade returns the value of the first selector, in
\* listed order, whose match passes the validity check of the field;
\* selectors that find nothing, find invalid text or raise are skipped, and
\* no later match is returned when an earlier one is valid.
Thm_C4_FirstValidSelectorWins ==
  (pc = "done" /\ call \in BasicFields) =>
    \A i \in DOMAIN Answers :
      (Passes(call, Answers[i]) /\ \A j \in 1..(i - 1) : ~Passes(call, Answers[j]))
        => ret = CandidateValue(call, Answers[i])

\* a call in which a selector raised, a later one found invalid text or a
\* valid one, and the value of the valid later selector was returned
Wit_C4_SkippedThenValid ==
  /\ pc = "done"
  /\ call \in BasicFields
  /\ \E i, j \in DOMAIN Answers :
       /\ i < j
       /\ Answers[i] # NoMatch
       /\ ~Passes(call, Answers[i])
       /\ Passes(call, Answers[j])
       /\ ret = CandidateValue(call, Answers[j])

RuleAccepts(f, text, caseless) ==
  CASE f = "about" -> StrLen(text) > 20
    [] f = "location" ->
         /\ StrLen(text) >= 1
         /\ StrLen(text) < 100
         /\ ~Contains(IF caseless THEN Lower(text) ELSE text, TextConnection)
    [] f = "headline" ->
         /\ StrLen(text) >= 1
         /\ ~Contains(Lower(text), Cat(TextConnection, Run("s", 1)))

\* the answers of the finished call that the rule of C6 accepts
Accepted(caseless) ==
  {i \in DOMAIN Answers :
     /\ Answers[i].m = "elem"
     /\ RuleAccepts(call, CandidateValue(call, Answers[i]).s, caseless)}

\* the result C6 describes: the first accepted candidate, a rejected one
\* counting as no match
RuleResult(caseless) ==
  IF Accepted(caseless) = {} THEN PyNone
  ELSE LET i == CHOOSE k \in Accepted(caseless) :
                  \A l \in Accepted(caseless) : k <= l
       IN CandidateValue(call, Answers[i])

\* C6 as stated: about is accepted iff longer than 20 characters, location
\* iff non-empty, shorter than 100 characters and without the text
\* "connection" as written, headline iff non-empty and without "connections"
\* in any letter case; rejected candidates count as no match.
Cex_C6_ValidityRules ==
  (pc = "done" /\ call \in {"about", "location", "headline"}) =>
    ret = RuleResult(FALSE)

\* C6 as amended: as stated, with the location rule ignoring letter case
\* like the headline rule: a location holding "connection" in any letter
\* case is rejected.
Thm_C6_ValidityRulesCaseless ==
  (pc = "done" /\ call \in {"about", "location", "headline"}) =>
    ret = RuleResult(TRUE)

\* a call in which a candidate was rejected by its rule and counted as no
\* match: a later accepted candidate was returned
Wit_C6_RejectedThenAccepted ==
  /\ pc = "done"
  /\ call \in {"about", "location", "headline"}
  /\ \E i, j \in DOMAIN Answers :
       /\ i < j
       /\ Answers[i].m = "elem"
       /\ i \notin Accepted(TRUE)
       /\ j \in Accepted(TRUE)
       /\ ret = CandidateValue(call, Answers[j])

(***************************************************************************)
(* Specification of the structured-data extractor.                         *)
(***************************************************************************)
\* most script elements of one document
MaxScripts == 3

Person(name) == PyDict(("@type" :> PyStr(TextPerson)) @@ ("name" :> PyStr(name)))
Organization == PyDict("@type" :> PyStr(Lit(<<"O", "r", "g">>)))
Graph(v) == PyDict("@graph" :> v)

\* the script elements of the documents
Scripts ==
  {NoString, EmptyString, Malformed,
   Json(Person(TextJo)), Json(Person(TextDev)), Json(Organization),
   Json(PyList(<<Person(TextJo)>>)),
   Json(Graph(PyList(<<Organization, Person(TextJo)>>))),
   Json(Graph(PyList(<<Person(TextDev), Person(TextJo)>>))),
   Json(Graph(PyList(<<PyStr(TextPerson), PyNum(1)>>))),
   Json(Graph(PyStr(TextPerson))),
   Json(Graph(PyNum(5)))}

RECURSIVE SeqsUpTo(_, _)
\* the sequences over S of length at most n
SeqsUpTo(S, n) ==
  IF n = 0 THEN {<<>>}
  ELSE SeqsUpTo(S, n - 1) \cup {Append(q, x) : q \in {r \in SeqsUpTo(S, n - 1) : Len(r) = n - 1}, x \in S}

ScriptDocs == {[EmptySoup EXCEPT !.scripts = q] : q \in SeqsUpTo(Scripts, MaxScripts)}

InitJsonLd ==
  /\ soup \in ScriptDocs
  /\ call = "none"
  /\ pc = "ready"
  /\ ret = PyNone
  /\ profile_data = PyNone
  /\ json_ld_data = PyNone
  /\ LoopIdle
  /\ BatchIdle
  /\ UtilIdle

ExtractJsonLd == Return("json_ld", _extract_json_ld(soup))

NextJsonLd == ExtractJsonLd

SpecJsonLd == InitJsonLd /\ [][NextJsonLd]_vars

\* the scripts, in document order, that hold a Person or fail to load
Stops(scripts) ==
  {i \in 1..Len(scripts) :
     ScriptRaises(scripts[i]) \/ ScriptPerson(scripts[i]) # PyNone}

\* the first Person in document order when scripts that do not load are
\* skipped
FirstPersonSkipping(scripts) ==
  LET holders == {i \in 1..Len(scripts) :
                    ~ScriptRaises(scripts[i]) /\ ScriptPerson(scripts[i]) # PyNone}
  IN IF holders = {} THEN PyNone
     ELSE ScriptPerson(scripts[CHOOSE i \in holders : \A j \in holders : i <= j])

\* C7: a script that fails to parse as JSON is skipped and scanning goes
\* on, so the first Person of the scripts that do load is returned.
Cex_C7_MalformedBlockSkipped ==
  (pc = "done" /\ call = "json_ld"
     /\ \A i \in 1..Len(soup.scripts) :
          ScriptRaises(soup.scripts[i]) => soup.scripts[i] = Malformed) =>
    ret = FirstPersonSkipping(soup.scripts)

\* C8 as stated: the first Person in document order is returned, and only
\* the first two scripts are examined (documents whose scripts all load).
Cex_C8_AtMostTwoBlocks ==
  (pc = "done" /\ call = "json_ld"
     /\ \A i \in 1..Len(soup.scripts) :
          soup.scripts[i].string = "json" /\ ~ScriptRaises(soup.scripts[i])) =>
    ret = FirstPersonSkipping(FirstTwo(soup.scripts))

\* C8 as amended: the scripts are examined in document order, however many
\* there are, up to the first one that is a Person object, holds a Person
\* in its graph container, or fails to load; the result is that Person (the
\* first Person of the graph), and nothing when that script failed to load
\* or when no script holds a Person.  Scripts of another type are passed
\* over, and a Person found only in a third or later script is returned.
Thm_C8_FirstPersonAnyBlock ==
  (pc = "done" /\ call = "json_ld") =>
    LET stops == Stops(soup.scripts) IN
    IF stops = {} THEN ret = PyNone
    ELSE LET i == CHOOSE k \in stops : \A l \in stops : k <= l IN
         ret = IF ScriptRaises(soup.scripts[i]) THEN PyNone
               ELSE ScriptPerson(soup.scripts[i])

\* a call that returned a Person held only by the third script
Wit_C8_PersonInThirdBlock ==
  /\ pc = "done"
  /\ call = "json_ld"
  /\ Len(soup.scripts) >= 3
  /\ Stops(soup.scripts) = {3}
  /\ soup.scripts[1].string = "json"
  /\ soup.scripts[2].string = "json"
  /\ ret = ScriptPerson(soup.scripts[3])
  /\ ret # PyNone

(***************************************************************************)
(* Specification of the experience extractor: the loop over the items of   *)
(* the list containers, one item per step.                                 *)
(***************************************************************************)
\* most nested items, an empty nested list counting as one, of an item
MaxNested == 2

\* the nested items of the documents
NestedItems ==
  {Li(spans, <<>>) :
     spans \in {<<>>,
                <<Span("flex-center", Lit(<<" ", "E", "n", "g">>))>>,
                <<Span("flex-center", Run("x", TitleLimit - 1))>>,
                <<Span("flex-center", Run("x", TitleLimit))>>,
                <<Span("flex-center", TextBlank)>>,
                <<Span("flex", TextDev)>>,
                <<Span("flex", TextBlank), Span("flex-center", TextDev)>>}}

\* the nested lists of n items, an empty one counting as one item
ListsOfSize(n) ==
  IF n = 1 THEN {<<>>} \cup {<<li>> : li \in NestedItems}
  ELSE {q \in SeqsUpTo(NestedItems, n) : Len(q) = n}

RECURSIVE ListsWithin(_)
\* the sequences of nested lists of at most n items together
ListsWithin(n) ==
  IF n = 0 THEN {<<>>}
  ELSE {<<>>} \cup
       UNION {{<<ul>> \o rest : ul \in ListsOfSize(k), rest \in ListsWithin(n - k)} :
                k \in 1..n}

\* the headings of the top-level items of the documents
Headings ==
  {<<>>,
   <<Span("flex-center", TextJo), Span("t14", TextKa)>>,
   <<Span("bold", TextDev), Span("t14", TextDev)>>,
   <<Span("flex", TextKa)>>,
   <<Span("t14", TextKa)>>}

ExperienceDocs ==
  {EmptySoup, [EmptySoup EXCEPT !.experience = Section(<<>>)]} \cup
  {[EmptySoup EXCEPT !.experience = Section(<<<<Li(spans, uls)>>>>)] :
     spans \in Headings, uls \in ListsWithin(MaxNested)}

InitExperience ==
  /\ soup \in ExperienceDocs
  /\ call = "none"
  /\ pc = "ready"
  /\ ret = PyNone
  /\ profile_data = PyNone
  /\ json_ld_data = PyNone
  /\ LoopIdle
  /\ BatchIdle
  /\ UtilIdle

\* the search for the section and for its list containers
FindExperienceItems ==
  /\ pc = "ready"
  /\ call' = "experience"
  /\ IF soup.experience = PyNone
     THEN /\ ret' = PyList(<<>>)
          /\ pc' = "done"
          /\ UNCHANGED item_queue
     ELSE /\ item_queue' = SectionItems(soup.experience)
          /\ pc' = "loop"
          /\ UNCHANGED ret
  /\ UNCHANGED <<soup, profile_data, json_ld_data, item, is_truly_grouped, exp, experiences>>
  /\ UNCHANGED batch_vars
  /\ UNCHANGED util_vars

\* one pass of the loop over the items
ClassifyAndExtractItem ==
  /\ pc = "loop"
  /\ item_queue # <<>>
  /\ item' = Head(item_queue)
  /\ item_queue' = Tail(item_queue)
  /\ is_truly_grouped' = IsTrulyGrouped(item')
  /\ exp' = IF is_truly_grouped' THEN _extract_grouped_experience(item')
            ELSE _extract_single_experience(item')
  /\ experiences' = experiences \o Appended(item')
  /\ UNCHANGED <<soup, call, pc, ret, profile_data, json_ld_data>>
  /\ UNCHANGED batch_vars
  /\ UNCHANGED util_vars

ReturnExperiences ==
  /\ pc = "loop"
  /\ item_queue = <<>>
  /\ ret' = PyList(experiences)
  /\ pc' = "done"
  /\ UNCHANGED <<soup, call, profile_data, json_ld_data, loop_vars>>
  /\ UNCHANGED batch_vars
  /\ UNCHANGED util_vars

NextExperience ==
  \/ FindExperienceItems
  \/ ClassifyAndExtractItem
  \/ ReturnExperiences

SpecExperience == InitExperience /\ [][NextExperience]_vars

\* the loop has just classified `item`
Classified == pc = "loop" /\ item # PyNone

\* the entry of the classified item was appended to the result
Kept == experiences # <<>> /\ experiences[Len(experiences)] = exp

\* the length of the title text a nested item shows, 0 when it shows none
TitleLength(nested_item) ==
  LET shown == {k \in 1..Len(nested_item.spans) :
                  nested_item.spans[k].kind = "flex-center"}
  IN IF shown = {} THEN 0
     ELSE StrLen(Strip(nested_item.spans[CHOOSE k \in shown : \A l \in shown : k <= l].text))

\* a nested list with a direct item whose title has 1 to 199 characters
Qualifies(nested_list) ==
  \E n \in 1..Len(nested_list) :
    TitleLength(nested_list[n]) >= 1 /\ TitleLength(nested_list[n]) < 200

\* a single-role entry: it exposes a title and has no roles
SingleShape(e) ==
  /\ e.t = "dict"
  /\ HasKey(e, "title")
  /\ Truthy(e.f["title"])
  /\ ~HasKey(e, "roles")

\* C10 as stated: an item is classified grouped iff some nested list of it
\* has a direct nested item with a title of 1 to 199 characters; otherwise
\* it is classified single and its entry exposes a title directly.
Cex_C10_GroupedIffSomeNestedList ==
  Classified =>
    /\ is_truly_grouped <=> \E k \in 1..Len(item.uls) : Qualifies(item.uls[k])
    /\ (~is_truly_grouped /\ Kept) => SingleShape(exp)

\* C10 as amended: an item is classified grouped iff its first nested list,
\* in document order, has a direct nested item with a title of 1 to 199
\* characters; in every other case (no nested list, or a first nested list
\* whose titles are all empty, missing or of 200 or more characters) it is
\* classified single and the entry kept for it exposes a title directly.
Thm_C10_GroupedIffFirstNestedList ==
  Classified =>
    /\ is_truly_grouped <=> (item.uls # <<>> /\ Qualifies(item.uls[1]))
    /\ (~is_truly_grouped /\ Kept) => SingleShape(exp)

\* an item whose first nested list has only a title of 200 characters was
\* classified single and kept with its title
Wit_C10_LongTitleIsSingle ==
  /\ Classified
  /\ item.uls # <<>>
  /\ \E n \in 1..Len(item.uls[1]) : TitleLength(item.uls[1][n]) >= 200
  /\ ~is_truly_grouped
  /\ Kept
  /\ SingleShape(exp)

(***************************************************************************)
(* Specification of parse: the document holds a few features, in its       *)
(* elements and in the keys of one Person record.                          *)
(***************************************************************************)
\* the features of a document are at most this many
MaxFeatures == 2

TextKaId == Lit(<<"k", "a">>)
TextJoId == Lit(<<"j", "o">>)
TextEmail == Lit(<<"m", "a", "i", "l", "t", "o", ":", "a", "@", "b">>)
TextFollowers == Lit(<<"1", ",", "2", " ", "f">>)
TextYear == Lit(<<"2", "0", "2", "0">>)
TextDevAtJo == Cat(TextDev, Cat(TextAt, TextJo))
TextMasked == Lit(<<"x", "*", "y">>)

\* a profile URL of the given id
ProfileUrl(id) ==
  Cat(Cat(Lit(<<"h", "t", "t", "p", "s", ":", "/", "/", "w", "w", "w", ".">>), ProfilePath), id)

OneEntry == PyList(<<PyDict("name" :> PyStr(TextDev))>>)

\* what the elements of a document may hold, by the place that holds it
DomChoices ==
  [name |-> {Elem(<<TextJo>>, PyNone)},
   headline |-> {Elem(<<TextDev>>, PyNone)},
   location |-> {Elem(<<TextKa>>, PyNone), Elem(<<Text500Connections>>, PyNone)},
   profile_photo |-> {Elem(<<>>, PyStr(TextHttpsUrl))},
   about |-> {Elem(<<Run("x", 21)>>, PyNone), Elem(<<Run("x", 20)>>, PyNone)},
   canonical |-> {PyStr(ProfileUrl(TextKaId)),
                  PyStr(Cat(ProfileUrl(TextKaId), Run("/", 1))),
                  PyStr(TextHttpsUrl)},
   email |-> {Link(PyStr(TextEmail))},
   phone |-> {Elem(<<Lit(<<"5", "5", "5">>)>>, PyNone)},
   website |-> {Elems(<<Link(PyStr(TextHttpsUrl))>>)},
   connections |-> {Elem(<<Text500Connections>>, PyNone)},
   followers |-> {Elem(<<TextFollowers>>, PyNone)},
   experience |-> {Section(<<<<Li(<<Span("flex-center", TextJo), Span("t14", TextKa)>>, <<>>)>>>>)},
   education |-> {FoundItems(<<Li(<<Span("flex-center", TextJo)>>, <<>>)>>)},
   skills |-> {SkillSection(<<Li(<<Span("flex-center", TextDev)>>, <<>>)>>, <<>>)},
   languages |-> {OneEntry},
   honors |-> {OneEntry}]

\* what the keys of the Person record may hold
JsonChoices ==
  [sameAs |-> {PyStr(ProfileUrl(TextJoId)), PyStr(TextHttpsUrl),
               PyList(<<PyStr(ProfileUrl(TextJoId))>>), PyNone},
   name |-> {PyStr(TextDev), PyStr(<<>>)},
   jobTitle |-> {PyStr(TextDev), PyList(<<PyStr(TextDev)>>), PyList(<<>>), PyNone},
   address |-> {PyDict("addressLocality" :> PyStr(TextJo)),
                PyDict(("addressLocality" :> PyStr(TextJo))
                         @@ ("addressCountry" :> PyStr(TextDev))),
                PyDict("addressCountry" :> PyDict("name" :> PyStr(TextDev))),
                PyStr(TextJo), PyNum(7), PyList(<<PyStr(TextJo)>>)},
   image |-> {PyDict("contentUrl" :> PyStr(TextHttpUrl)), PyStr(TextHttpUrl)},
   disambiguatingDescription |-> {PyStr(TextDev)},
   interactionStatistic |-> {PyDict("userInteractionCount" :> PyNum(120)),
                             PyDict("userInteractionCount" :> PyStr(TextFollowers)),
                             PyList(<<>>)},
   worksFor |-> {PyList(<<PyDict("name" :> PyStr(TextDevAtJo))>>),
                 PyList(<<PyDict(("name" :> PyStr(TextJo))
                                   @@ ("member" :> PyDict(("startDate" :> PyStr(TextYear))
                                                            @@ ("description" :> PyStr(TextMasked)))))>>),
                 PyDict("name" :> PyStr(TextJo)),
                 PyNum(3),
                 PyList(<<PyDict("name" :> PyNone)>>),
                 PyList(<<PyStr(TextJo)>>)},
   alumniOf |-> {PyList(<<PyDict("name" :> PyStr(TextJo))>>), PyNum(3)},
   knowsLanguage |-> {PyList(<<PyStr(TextJo)>>),
                      PyList(<<PyDict("name" :> PyStr(TextJo))>>),
                      PyStr(TextJo)},
   awards |-> {PyList(<<PyStr(TextJo)>>), PyStr(TextJo)},
   url |-> {PyStr(TextHttpsUrl)}]

\* the features: a place or key, and what it holds
Features ==
  UNION {{<<"dom", k, v>> : v \in DomChoices[k]} : k \in DOMAIN DomChoices}
    \cup UNION {{<<"json", k, v>> : v \in JsonChoices[k]} : k \in DOMAIN JsonChoices}

RECURSIVE FeatureSets(_)
\* the sets of at most n features, no place or key used twice
FeatureSets(n) ==
  IF n = 0 THEN {{}}
  ELSE FeatureSets(n - 1) \cup
       UNION {{A \cup {x} : x \in {y \in Features :
                                     \A z \in A : <<z[1], z[2]>> # <<y[1], y[2]>>}} :
              A \in FeatureSets(n - 1)}

\* what place k of the elements holds, or the given default
Held(A, k, default) ==
  IF \E x \in A : x[1] = "dom" /\ x[2] = k
  THEN (CHOOSE x \in A : x[1] = "dom" /\ x[2] = k)[3]
  ELSE default

\* the Person record of the features
PersonOf(A) ==
  PyDict([k \in {"@type"} \cup {x[2] : x \in {y \in A : y[1] = "json"}} |->
            IF k = "@type" THEN PyStr(TextPerson)
            ELSE (CHOOSE x \in A : x[1] = "json" /\ x[2] = k)[3]])

\* the document of the features
Document(A) ==
  [sel |-> [f \in BasicFields |->
              [i \in 1..NumSelectors[f] |->
                 IF i = NumSelectors[f] THEN Held(A, f, NoMatch) ELSE NoMatch]],
   canonical |-> Held(A, "canonical", PyNone),
   scripts |-> IF \E x \in A : x[1] = "json" THEN <<Json(PersonOf(A))>> ELSE <<>>,
   experience |-> Held(A, "experience", PyNone),
   education |-> Held(A, "education", PyNone),
   skills |-> Held(A, "skills", PyNone),
   contact |-> [email |-> <<Held(A, "email", NoMatch), NoMatch>>,
                phone |-> <<Held(A, "phone", NoMatch), NoMatch>>,
                website |-> <<Held(A, "website", Elems(<<>>)), Elems(<<>>)>>],
   stats |-> [connections |-> <<Held(A, "connections", NoMatch), NoMatch>>,
              followers |-> <<Held(A, "followers", NoMatch)>>],
   sections |-> [k \in OtherSections |-> Held(A, k, PyList(<<>>))]]

ParseDocs == {Document(A) : A \in FeatureSets(MaxFeatures)}

Init ==
  /\ soup \in ParseDocs
  /\ call = "none"
  /\ pc = "ready"
  /\ ret = PyNone
  /\ profile_data = PyNone
  /\ json_ld_data = PyNone
  /\ LoopIdle
  /\ BatchIdle
  /\ UtilIdle

\* parse, the dict display: every extractor is applied to the tree
ParseExtractHtml ==
  /\ call = "none"
  /\ pc = "ready"
  /\ call' = "parse"
  /\ profile_data' = PyDict(ExtractHtml(soup))
  /\ pc' = "html"
  /\ UNCHANGED <<soup, ret, json_ld_data, loop_vars>>
  /\ UNCHANGED batch_vars
  /\ UNCHANGED util_vars

\* parse: json_ld_data = self._extract_json_ld(soup)
ParseExtractJsonLd ==
  /\ call = "parse"
  /\ pc = "html"
  /\ json_ld_data' = _extract_json_ld(soup)
  /\ pc' = "json_ld"
  /\ UNCHANGED <<soup, call, ret, profile_data, loop_vars>>
  /\ UNCHANGED batch_vars
  /\ UNCHANGED util_vars

\* parse: the Person record is mapped and merged; an exception of the
\* mapping leaves parse
\* a merge that adds the keys and the entries of the Person record to the
\* non-empty maps and lists of the elements
ParseMergeExtending ==
  /\ call = "parse"
  /\ pc = "json_ld"
  /\ IF ~Truthy(json_ld_data)
     THEN pc' = "merged" /\ UNCHANGED profile_data
     ELSE IF _parse_json_ld(json_ld_data) = Raise
     THEN pc' = "raised" /\ UNCHANGED profile_data
     ELSE /\ profile_data' =
               PyDict([k \in KeySet |->
                 LET mine == profile_data.f[k]
                     theirs == _parse_json_ld(json_ld_data).f[k]
                 IN IF ~Truthy(mine) /\ Truthy(theirs) THEN theirs
                    ELSE IF mine.t = "dict" /\ theirs.t = "dict"
                    THEN PyDict(mine.f @@ theirs.f)
                    ELSE IF mine.t = "list" /\ theirs.t = "list"
                    THEN PyList(mine.v \o theirs.v)
                    ELSE mine])
          /\ pc' = "merged"
  /\ UNCHANGED <<soup, call, ret, json_ld_data, loop_vars>>
  /\ UNCHANGED batch_vars
  /\ UNCHANGED util_vars

ParseMerge ==
  /\ call = "parse"
  /\ pc = "json_ld"
  /\ IF ~Truthy(json_ld_data)
     THEN pc' = "merged" /\ UNCHANGED profile_data
     ELSE IF _parse_json_ld(json_ld_data) = Raise
     THEN pc' = "raised" /\ UNCHANGED profile_data
     ELSE /\ profile_data' = Merge(profile_data, _parse_json_ld(json_ld_data))
          /\ pc' = "merged"
  /\ UNCHANGED <<soup, call, ret, json_ld_data, loop_vars>>
  /\ UNCHANGED batch_vars
  /\ UNCHANGED util_vars

\* parse: the non-empty sections are listed and the dict is returned
ParseReturn ==
  /\ call = "parse"
  /\ pc = "merged"
  /\ profile_data' = SetKey(profile_data, "sections",
                            [t |-> "list", v |-> NonEmptySections(profile_data)])
  /\ ret' = profile_data'
  /\ pc' = "done"
  /\ UNCHANGED <<soup, call, json_ld_data, loop_vars>>
  /\ UNCHANGED batch_vars
  /\ UNCHANGED util_vars

Next == ParseExtractHtml \/ ParseExtractJsonLd \/ ParseMerge \/ ParseReturn

Spec == Init /\ [][Next]_vars

\* what the extractors find in the elements of the document
Dom == ExtractHtml(soup)

\* no element of the document gives the field a value
DomFindsNothing(k) ==
  IF k = "name" THEN \A i \in DOMAIN soup.sel[k] : ~Passes(k, soup.sel[k][i])
  ELSE ~Truthy(Dom[k])

\* the Person record gives the field a non-empty value
PersonSupplies(k) ==
  /\ Truthy(json_ld_data)
  /\ _parse_json_ld(json_ld_data) # Raise
  /\ Truthy(_parse_json_ld(json_ld_data).f[k])
  /\ k = "name" => HasKey(json_ld_data, "name")

\* C1: for every top-level field of the result except the user name, when
\* the elements give no value and the Person record gives a non-empty one,
\* the result holds the value of the Person record.
Cex_C1_EmptyFieldTakesPersonValue ==
  (call = "parse" /\ pc = "done") =>
    \A k \in KeySet \ {"username"} :
      (DomFindsNothing(k) /\ PersonSupplies(k)) =>
        ret.f[k] = _parse_json_ld(json_ld_data).f[k]

\* C2: a field to which the elements give a non-empty value holds exactly
\* that value in the result, whatever the Person record gives for it.
Thm_C2_DomValueWins ==
  (call = "parse" /\ pc \in {"merged", "done"}) =>
    \A k \in KeySet : Truthy(Dom[k]) => profile_data.f[k] = Dom[k]

Wit_C2_BothSupplyLocation ==
  /\ call = "parse"
  /\ pc = "done"
  /\ Truthy(Dom["location"])
  /\ PersonSupplies("location")
  /\ _parse_json_ld(json_ld_data).f["location"] # Dom["location"]
  /\ ret.f["location"] = Dom["location"]

\* C3: parse raises no exception, whatever the shapes of the fields of the
\* Person record.
Cex_C3_ParseNeverRaises == call = "parse" => pc # "raised"

\* the id of the profile path in the same-as URL of the Person record, the
\* empty string when there is none
SameAsId ==
  IF Truthy(json_ld_data) /\ HasKey(json_ld_data, "sameAs")
       /\ json_ld_data.f["sameAs"].t = "str"
  THEN SearchProfilePath(json_ld_data.f["sameAs"].s)
  ELSE <<>>

\* C9: the user name of the result is the id of the same-as URL of the
\* Person record when that URL has a profile path; it is "linkedin-profile"
\* when neither that URL nor the canonical link has one.
Cex_C9_UsernameFromSameAs ==
  (call = "parse" /\ pc = "done") =>
    /\ SameAsId # <<>> => ret.f["username"] = PyStr(SameAsId)
    /\ (SameAsId = <<>> /\ Dom["username"] = PyStr(LinkedinProfile)) =>
         ret.f["username"] = PyStr(LinkedinProfile)

(***************************************************************************)
(* Properties of the grouped entries (under SpecExperience).               *)
(***************************************************************************)
\* the text a nested item shows as its title: the stripped text of its
\* first display-flex element, the empty string without one
ShownTitle(nested_item) ==
  LET all == SpansOf(nested_item)
      shown == {k \in 1..Len(all) : all[k].kind \in {"flex", "flex-center"}}
  IN IF shown = {} THEN <<>>
     ELSE Strip(all[CHOOSE k \in shown : \A l \in shown : k <= l].text)

\* the positions, among the items of the lists below li, of those that
\* show a title
Titled(li) ==
  {n \in 1..Len(ItemsBelow(li)) : ShownTitle(ItemsBelow(li)[n]) # <<>>}

\* the i-th smallest member of a finite set of numbers
Nth(S, i) == CHOOSE n \in S : Cardinality({m \in S : m < n}) = i - 1

\* the loop has just extracted `item` as a grouped entry
GroupedExtracted == Classified /\ is_truly_grouped /\ exp # PyNone

\* the company is a field of the entry and of no role
CompanyOnce ==
  /\ HasKey(exp, "company") => exp.f["company"].t = "str"
  /\ \A i \in 1..Len(exp.f["roles"].v) : ~HasKey(exp.f["roles"].v[i], "company")

\* C11 as stated: the roles of a grouped entry are one per nested item of
\* the nested list of the item, in document order, and the company-level
\* fields are extracted once for the entry.
Cex_C11_OneRolePerNestedItem ==
  GroupedExtracted =>
    /\ Len(exp.f["roles"].v) = Len(item.uls[1])
    /\ \A i \in 1..Len(exp.f["roles"].v) :
         exp.f["roles"].v[i].f["title"] = PyStr(ShownTitle(item.uls[1][i]))
    /\ CompanyOnce

\* C11 as amended: the roles of a grouped entry are one per item, of any
\* list nested in the item, that shows a non-empty title, in document
\* order; nested items without a title give no role; the company is
\* extracted once for the entry.
Thm_C11_OneRolePerTitledNestedItem ==
  GroupedExtracted =>
    /\ Len(exp.f["roles"].v) = Cardinality(Titled(item))
    /\ \A i \in 1..Len(exp.f["roles"].v) :
         exp.f["roles"].v[i].f["title"]
           = PyStr(ShownTitle(ItemsBelow(item)[Nth(Titled(item), i)]))
    /\ CompanyOnce

\* a grouped entry of two roles with different titles, in the order of
\* its two nested items, under a heading that gives the company
Wit_C11_TwoRolesInOrder ==
  /\ GroupedExtracted
  /\ Len(ItemsBelow(item)) = 2
  /\ Len(exp.f["roles"].v) = 2
  /\ exp.f["roles"].v[1] # exp.f["roles"].v[2]
  /\ exp.f["roles"].v[1].f["title"] = PyStr(ShownTitle(ItemsBelow(item)[1]))
  /\ HasKey(exp, "company")

\* an entry of the list has the grouped shape
GroupedShape(e) == HasKey(e, "roles") \/ HasKey(e, "is_grouped")

\* C12: every entry of grouped shape has a non-empty roles list, and a pass
\* of the loop over an item classified grouped from which no role is
\* extracted appends nothing.
Thm_C12_NoRolesNoEntry ==
  [][/\ \A i \in 1..Len(experiences') :
          GroupedShape(experiences'[i]) =>
            /\ HasKey(experiences'[i], "roles")
            /\ experiences'[i].f["roles"].v # <<>>
     /\ (pc = "loop" /\ pc' = "loop" /\ is_truly_grouped' /\ Titled(item') = {})
          => experiences' = experiences]_vars

\* an item was classified grouped, gave no role and no entry
Wit_C12_GroupedWithoutRoles ==
  /\ Classified
  /\ is_truly_grouped
  /\ Titled(item) = {}
  /\ exp = PyNone
  /\ experiences = <<>>

(***************************************************************************)
(* Specification of the section extractors: the experience, education and  *)
(* skills extractors are applied to a document.  While _extract_education  *)
(* runs, item_queue, item, exp and experiences hold its items, item, edu   *)
(* and education; while _extract_skills runs, experiences holds skills.    *)
(***************************************************************************)
\* the items of a section are at most this many
MaxItems == 3

TextUpperDev == Lit(<<"D", "E", "V">>)
TextLowerDev == Lit(<<" ", "d", "e", "v", " ">>)
TextCommaDev == Cat(Lit(<<",", " ">>), TextDev)
TextJoCommaDev == Cat(TextJo, TextCommaDev)

\* the education items of the documents
EducationItems ==
  {Li(spans, <<>>) :
     spans \in {<<>>,
                <<Span("flex-center", TextJo)>>,
                <<Span("t14", TextDev)>>,
                <<Span("flex-center", TextJo), Span("t14", TextJoCommaDev)>>,
                <<Span("flex-center", TextBlank), Span("dates", TextYear)>>}}

EducationDocs ==
  {[EmptySoup EXCEPT !.education = FoundItems(q)] : q \in SeqsUpTo(EducationItems, MaxItems)}

\* the skill items of the documents
SkillItems ==
  {Li(spans, <<>>) :
     spans \in {<<>>,
                <<Span("flex-center", TextDev)>>,
                <<Span("flex-center", TextUpperDev), Span("t14-light", TextFollowers)>>,
                <<Span("bold", TextLowerDev)>>,
                <<Span("flex-center", TextJo)>>}}

\* the elements of the fallback scan
SkillElements ==
  {Elem(<<TextDev>>, PyNone), Elem(<<TextUpperDev>>, PyNone),
   Elem(<<TextLowerDev>>, PyNone), Elem(<<TextBlank>>, PyNone)}

SkillDocs ==
  {[EmptySoup EXCEPT !.skills = SkillSection(q, <<>>)] : q \in SeqsUpTo(SkillItems, MaxItems)}
    \cup {[EmptySoup EXCEPT !.skills = SkillSection(<<>>, q)] :
            q \in SeqsUpTo(SkillElements, MaxItems)}

\* the experience documents of one item with at most one nested item
FlatExperienceDocs ==
  {EmptySoup, [EmptySoup EXCEPT !.experience = Section(<<>>)]} \cup
  {[EmptySoup EXCEPT !.experience = Section(<<<<Li(spans, uls)>>>>)] :
     spans \in Headings, uls \in ListsWithin(1)}

SectionDocs == FlatExperienceDocs \cup EducationDocs \cup SkillDocs

InitSections ==
  /\ soup \in SectionDocs
  /\ call = "none"
  /\ pc = "ready"
  /\ ret = PyNone
  /\ profile_data = PyNone
  /\ json_ld_data = PyNone
  /\ LoopIdle
  /\ BatchIdle
  /\ UtilIdle

\* _extract_education: the search for the section and for its items
FindEducationItems ==
  /\ pc = "ready"
  /\ call' = "education"
  /\ IF soup.education = PyNone
     THEN /\ ret' = PyList(<<>>)
          /\ pc' = "done"
          /\ UNCHANGED item_queue
     ELSE /\ item_queue' = soup.education.items
          /\ pc' = "loop"
          /\ UNCHANGED ret
  /\ UNCHANGED <<soup, profile_data, json_ld_data, item, is_truly_grouped, exp, experiences>>
  /\ UNCHANGED batch_vars
  /\ UNCHANGED util_vars

\* _extract_education: one pass of the loop over the items
ExtractEducationItem ==
  /\ call = "education"
  /\ pc = "loop"
  /\ item_queue # <<>>
  /\ item' = Head(item_queue)
  /\ item_queue' = Tail(item_queue)
  /\ exp' = _extract_single_education(item')
  /\ experiences' = experiences \o EducationKept(item')
  /\ UNCHANGED <<soup, call, pc, ret, profile_data, json_ld_data, is_truly_grouped>>
  /\ UNCHANGED batch_vars
  /\ UNCHANGED util_vars

\* _extract_education: return education
ReturnEducation ==
  /\ call = "education"
  /\ pc = "loop"
  /\ item_queue = <<>>
  /\ ret' = PyList(experiences)
  /\ pc' = "done"
  /\ UNCHANGED <<soup, call, profile_data, json_ld_data, loop_vars>>
  /\ UNCHANGED batch_vars
  /\ UNCHANGED util_vars

NextEducation == FindEducationItems \/ ExtractEducationItem \/ ReturnEducation

\* _extract_skills: the item-based scan, or the fallback scan when the
\* section has no skill item
CollectSkills ==
  /\ pc = "ready"
  /\ call' = "skills"
  /\ IF soup.skills = PyNone
     THEN /\ ret' = PyList(<<>>)
          /\ pc' = "done"
          /\ UNCHANGED experiences
     ELSE /\ experiences' = IF soup.skills.items # <<>>
                            THEN DetailedSkills(soup.skills.items)
                            ELSE FallbackSkills(soup.skills.elements, <<>>)
          /\ pc' = "collected"
          /\ UNCHANGED ret
  /\ UNCHANGED <<soup, profile_data, json_ld_data, item_queue, item, is_truly_grouped, exp>>
  /\ UNCHANGED batch_vars
  /\ UNCHANGED util_vars

\* _extract_skills: the de-duplication and the return
ReturnUniqueSkills ==
  /\ call = "skills"
  /\ pc = "collected"
  /\ ret' = PyList(Unique(experiences, {}))
  /\ pc' = "done"
  /\ UNCHANGED <<soup, call, profile_data, json_ld_data, loop_vars>>
  /\ UNCHANGED batch_vars
  /\ UNCHANGED util_vars

NextSkills == CollectSkills \/ ReturnUniqueSkills

\* the attributes of class ProfileParser and of its instances
ProfileParserAttributes ==
  {"SELECTORS", "debug", "__init__", "parse",
   "_extract_json_ld", "_parse_json_ld", "_parse_json_ld_location",
   "_parse_json_ld_stats", "_parse_json_ld_experience", "_parse_json_ld_duration",
   "_parse_json_ld_education", "_parse_json_ld_languages",
   "_extract_username", "_extract_name", "_extract_headline", "_extract_location",
   "_extract_profile_picture", "_extract_about", "_extract_contact_info",
   "_extract_stats", "_extract_experience", "_extract_grouped_experience",
   "_extract_single_experience", "_extract_education", "_extract_single_education",
   "_extract_skills", "_extract_single_skill", "_extract_certifications",
   "_extract_single_certification", "_extract_languages", "_extract_single_language",
   "_extract_volunteer", "_extract_single_volunteer", "_extract_projects",
   "_extract_publications", "_extract_honors", "_extract_courses", "_safe_extract"}

\* the categories parse_html_to_json reads from a page of their own
DetailCategories ==
  {"experience", "education", "skills", "certifications", "projects",
   "languages", "volunteer", "publications", "honors"}

\* the method parse_html_to_json calls for the page of a category
DetailParserName ==
  [experience |-> "parse_experience_detail",
   education |-> "parse_education_detail",
   skills |-> "parse_skills_detail",
   certifications |-> "parse_certifications_detail",
   projects |-> "parse_projects_detail",
   languages |-> "parse_languages_detail",
   volunteer |-> "parse_volunteer_detail",
   publications |-> "parse_publications_detail",
   honors |-> "parse_honors_detail"]

\* parser.<name>: the attribute, or AttributeError
GetAttr(name) ==
  IF name \in ProfileParserAttributes THEN [t |-> "attribute", name |-> name] ELSE Raise

\* the entries the section extractor of a category yields for a document
SectionEntries(category, s) ==
  CASE category = "experience" -> _extract_experience(s)
    [] category = "education" -> _extract_education(s)
    [] category = "skills" -> _extract_skills(s)
    [] OTHER -> s.sections[category]

\* parser.parse_<category>_detail(html): the attribute lookup comes first,
\* and the call is made only when the lookup answers a method
CallDetailParser ==
  /\ pc = "ready"
  /\ \E category \in DetailCategories :
       /\ call' = DetailParserName[category]
       /\ IF GetAttr(DetailParserName[category]) = Raise
          THEN /\ ret' = Raise
               /\ pc' = "raised"
          ELSE /\ ret' = SectionEntries(category, soup)
               /\ pc' = "done"
  /\ UNCHANGED <<soup, profile_data, json_ld_data, loop_vars>>
  /\ UNCHANGED batch_vars
  /\ UNCHANGED util_vars

NextSections ==
  \/ (call \in {"none", "experience"} /\ NextExperience)
  \/ NextEducation
  \/ NextSkills
  \/ CallDetailParser

SpecSections == InitSections /\ [][NextSections]_vars

\* the field k of the entry extracted from `item`, None without it
Field(k) == IF exp = PyNone THEN PyNone ELSE Get(exp, k, PyNone)

\* the experience loop has just extracted `item` as a single position
SingleExtracted == call = "experience" /\ Classified /\ ~is_truly_grouped

\* the education loop has just extracted `item`
EducationExtracted == call = "education" /\ Classified

\* C13 as stated: an item is discarded exactly when both of its mandatory
\* fields are empty: title and company for a single experience item,
\* institution and degree for an education item.
Cex_C13_DiscardedIffBothEmpty ==
  /\ SingleExtracted =>
       (Kept <=> (Truthy(Field("title")) \/ Truthy(Field("company"))))
  /\ EducationExtracted =>
       (Kept <=> (Truthy(Field("institution")) \/ Truthy(Field("degree"))))

\* C13 as amended: a single experience item is kept exactly when a title
\* was extracted for it, whatever its company; an education item is kept
\* exactly when an institution or a degree was extracted for it.
Thm_C13_KeptIffMandatoryField ==
  /\ SingleExtracted => (Kept <=> Truthy(Field("title")))
  /\ EducationExtracted =>
       (Kept <=> (Truthy(Field("institution")) \/ Truthy(Field("degree"))))

\* an experience item with a company and no title was discarded
Wit_C13_CompanyWithoutTitle ==
  /\ SingleExtracted
  /\ Truthy(Field("company"))
  /\ ~Truthy(Field("title"))
  /\ ~Kept

\* the lower-case name of the i-th entry of a list of skills
LowerName(skills, i) == Lower(Get(skills[i], "name", PyStr(<<>>)).s)

\* the positions of the collected skills that have a name no earlier
\* collected skill has, letter case apart
FirstSeen ==
  {n \in 1..Len(experiences) :
     /\ LowerName(experiences, n) # <<>>
     /\ \A m \in 1..(n - 1) : LowerName(experiences, m) # LowerName(experiences, n)}

\* _extract_skills has returned the de-duplicated list
SkillsReturned == call = "skills" /\ pc = "done" /\ soup.skills # PyNone

\* C14: the returned skills hold no two entries whose names are equal
\* ignoring letter case; of the collected entries with the same name the
\* first is the one kept, and the kept entries stay in their order of
\* first appearance.
Thm_C14_UniqueSkillNames ==
  SkillsReturned =>
    /\ \A i, j \in 1..Len(ret.v) :
         i # j => LowerName(ret.v, i) # LowerName(ret.v, j)
    /\ Len(ret.v) = Cardinality(FirstSeen)
    /\ \A i \in 1..Len(ret.v) : ret.v[i] = experiences[Nth(FirstSeen, i)]

\* three skills were collected, the third with the name of the first in
\* another letter case, and the first and the second were returned
Wit_C14_LaterCaseVariantDropped ==
  /\ SkillsReturned
  /\ Len(experiences) = 3
  /\ experiences[1].f["name"] # experiences[3].f["name"]
  /\ LowerName(experiences, 1) = LowerName(experiences, 3)
  /\ LowerName(experiences, 1) # LowerName(experiences, 2)
  /\ ret.v = <<experiences[1], experiences[2]>>

(***************************************************************************)
(* Properties of the record parse returns (under Spec).                    *)
(***************************************************************************)
\* parse has returned
Parsed == call = "parse" /\ pc = "done"

\* the keys `sections` lists
Listed == {ret.f["sections"].v[i] : i \in 1..Len(ret.f["sections"].v)}

\* the place of a key in the fixed order of the fields of the record
Place(k) == CHOOSE i \in 1..Len(ProfileKeys) : ProfileKeys[i] = k

\* C15: after parse, `sections` lists a key exactly when it is a field of
\* the record other than username whose final value is non-empty; it lists
\* neither username nor sections, no key twice, and the keys in the fixed
\* order of the fields.
Thm_C15_SectionsAreNonEmptyFields ==
  Parsed =>
    /\ Listed = {k \in KeySet \ {"username"} : Truthy(ret.f[k])}
    /\ \A i, j \in 1..Len(ret.f["sections"].v) :
         i < j => Place(ret.f["sections"].v[i]) < Place(ret.f["sections"].v[j])

\* a call listed a field the elements gave and, after it, a field only the
\* Person record gave, and left an empty field out
Wit_C15_MergedFieldListed ==
  /\ Parsed
  /\ ret.f["sections"].v = <<"name", "headline", "languages">>
  /\ Truthy(Dom["headline"])
  /\ ~Truthy(Dom["languages"])
  /\ ~Truthy(ret.f["experience"])

SectionFields ==
  {"experience", "education", "skills", "certifications", "languages",
   "volunteer", "projects", "publications", "honors", "courses"}

\* C16: after parse, each of the ten section fields is in the record and is
\* a list, also after the values of the Person record have been merged in.
Cex_C16_SectionFieldsAreLists ==
  Parsed =>
    \A k \in SectionFields : k \in DOMAIN ret.f /\ ret.f[k].t = "list"

\* the fields whose value is a map
MapFields == {"contact_info", "stats"}

\* the step is the merge of the Person record into the values of the elements
MergeStep == call = "parse" /\ pc = "json_ld" /\ pc' = "merged"

\* C29: the merge works on whole top-level values: a contact_info or stats
\* map to which the elements give any entry is left exactly as extracted,
\* whatever entries the Person record has for it, and a non-empty section
\* list of the elements is left exactly as extracted.
Thm_C29_MergeLeavesWholeValues ==
  [][MergeStep =>
       \A k \in MapFields \cup SectionFields :
         Truthy(profile_data.f[k]) => profile_data'.f[k] = profile_data.f[k]
    ]_vars

\* the elements give a connections count only, the Person record a followers
\* count, and the merged stats hold no followers count
Wit_C29_FollowersNotAdded ==
  /\ call = "parse"
  /\ pc = "merged"
  /\ PersonSupplies("stats")
  /\ HasKey(_parse_json_ld(json_ld_data).f["stats"], "followers")
  /\ HasKey(profile_data.f["stats"], "connections")
  /\ ~HasKey(profile_data.f["stats"], "followers")

(***************************************************************************)
(* Properties of the per-category detail parsers.                          *)
(***************************************************************************)
\* the category whose detail parser was called
DetailCalled(category) == call = DetailParserName[category]

\* C18: the detail parser of every category returns, for a page of that
\* category, the bare list of the entries the section extractor of the
\* category yields for the page (the empty list for a page without items),
\* and does not raise.
Cex_C18_DetailParserReturnsEntries ==
  \A category \in DetailCategories :
    DetailCalled(category) =>
      /\ pc = "done"
      /\ ret = SectionEntries(category, soup)
      /\ ret.t = "list"

(***************************************************************************)
(* Specification of _parse_json_ld_experience: json_ld_data is the Person  *)
(* record; item_queue, item, exp and experiences hold the entries of       *)
(* worksFor still to map, work, experience and experiences.                *)
(***************************************************************************)
\* the entries of worksFor are at most this many
MaxWorks == 2

TextDevAt == Cat(TextDev, TextAt)
TextAtJo == Cat(TextAt, TextJo)
TextDevAtJoAtKa == Cat(TextDevAtJo, Cat(TextAt, TextKa))
TextDevAtAtJo == Cat(TextDev, Cat(Lit(<<" ", "a", "t", " ", "a", "t", " ">>), TextJo))
TextPosition == Lit(<<"P", "o", "s", "i", "t", "i", "o", "n">>)

\* the names of the entries
WorkNames ==
  {TextDevAtJo, TextDevAtJoAtKa, TextDevAtAtJo, TextDevAt, TextAtJo, TextJo}

\* the members of the entries, as the fields a work dict has besides name
WorkMembers ==
  {<<>>, "member" :> PyDict("roleName" :> PyStr(TextKa))}

\* the entries of worksFor: dicts with a name, a dict without, a string
Works ==
  {PyDict(("name" :> PyStr(n)) @@ m) : n \in WorkNames, m \in WorkMembers}
    \cup {EmptyDict, PyStr(TextJo),
          PyDict(("name" :> PyStr(TextJo)) @@ ("member" :> PyDict("roleName" :> PyNone)))}

WorkDocs ==
  {PyDict("@type" :> PyStr(Lit(<<"P", "e", "r", "s", "o", "n">>)))}
    \cup {PyDict(("@type" :> PyStr(Lit(<<"P", "e", "r", "s", "o", "n">>)))
                   @@ ("worksFor" :> PyList(q))) : q \in SeqsUpTo(Works, MaxWorks)}

InitWorkHistory ==
  /\ soup = EmptySoup
  /\ call = "none"
  /\ pc = "ready"
  /\ ret = PyNone
  /\ profile_data = PyNone
  /\ json_ld_data \in WorkDocs
  /\ LoopIdle
  /\ BatchIdle
  /\ UtilIdle

\* _parse_json_ld_experience: `if not works_for: return []`, then the
\* iterator of the loop
EnterWorkLoop ==
  /\ pc = "ready"
  /\ call' = "json_ld_experience"
  /\ LET works_for == Get(json_ld_data, "worksFor", PyList(<<>>)) IN
       IF ~Truthy(works_for)
       THEN /\ ret' = PyList(<<>>)
            /\ pc' = "done"
            /\ UNCHANGED item_queue
       ELSE IF NotIterable(works_for) \/ works_for.t = "bool"
       THEN /\ ret' = Raise
            /\ pc' = "raised"
            /\ UNCHANGED item_queue
       ELSE /\ item_queue' = CASE works_for.t = "list" -> works_for.v
                               [] works_for.t = "str" -> Chars(works_for.s)
                               [] works_for.t = "dict" -> <<>>
            /\ pc' = "loop"
            /\ UNCHANGED ret
  /\ UNCHANGED <<soup, profile_data, json_ld_data, item, is_truly_grouped, exp, experiences>>
  /\ UNCHANGED batch_vars
  /\ UNCHANGED util_vars

\* _parse_json_ld_experience: one pass of the loop over works_for
MapWork ==
  /\ call = "json_ld_experience"
  /\ pc = "loop"
  /\ item_queue # <<>>
  /\ item' = Head(item_queue)
  /\ item_queue' = Tail(item_queue)
  /\ IF item'.t # "dict"
     THEN UNCHANGED <<exp, experiences, pc, ret>>
     ELSE /\ exp' = WorkEntry(item')
          /\ IF exp' = Raise
             THEN /\ pc' = "raised"
                  /\ ret' = Raise
                  /\ UNCHANGED experiences
             ELSE /\ experiences' = Append(experiences, exp')
                  /\ UNCHANGED <<pc, ret>>
  /\ UNCHANGED <<soup, call, profile_data, json_ld_data, is_truly_grouped>>
  /\ UNCHANGED batch_vars
  /\ UNCHANGED util_vars

\* _parse_json_ld_experience: return experiences
ReturnWorks ==
  /\ call = "json_ld_experience"
  /\ pc = "loop"
  /\ item_queue = <<>>
  /\ ret' = PyList(experiences)
  /\ pc' = "done"
  /\ UNCHANGED <<soup, call, profile_data, json_ld_data, loop_vars>>
  /\ UNCHANGED batch_vars
  /\ UNCHANGED util_vars

NextWorkHistory == EnterWorkLoop \/ MapWork \/ ReturnWorks

SpecWorkHistory == InitWorkHistory /\ [][NextWorkHistory]_vars

(***************************************************************************)
(* Properties of the work-history mapping.                                 *)
(***************************************************************************)
RECURSIVE Flat(_)
\* the characters of a string, one by one
Flat(text) ==
  IF text = <<>> THEN <<>>
  ELSE <<text[1].c>>
         \o Flat(IF text[1].n > 1 THEN <<[text[1] EXCEPT !.n = @ - 1]>> \o Tail(text)
                 ELSE Tail(text))

\* the positions of the characters of `text` at which " at " starts
AtPositions(text) ==
  {i \in 1..(StrLen(text) - 3) : SubSeq(Flat(text), i, i + 3) = <<" ", "a", "t", " ">>}

FirstAt(text) == CHOOSE i \in AtPositions(text) : \A j \in AtPositions(text) : i <= j

\* what stands before and after the first " at " of `text`
LeftPart(text) == Lit(SubSeq(Flat(text), 1, FirstAt(text) - 1))
RightPart(text) == Lit(SubSeq(Flat(text), FirstAt(text) + 4, StrLen(text)))

\* the loop has just mapped a work entry whose name is a string
WorkMapped ==
  /\ call = "json_ld_experience"
  /\ pc = "loop"
  /\ item # PyNone
  /\ item.t = "dict"
  /\ HasKey(item, "name")
  /\ item.f["name"].t = "str"

WorkName == item.f["name"].s

WorkMember == DictOrEmpty(Get(item, "member", EmptyDict))

\* C19 as stated: a name holding " at " gives the part before its first
\* occurrence as title and all that follows it as company, up to
\* surrounding blanks; a non-empty name without " at " is the company and
\* the title is the placeholder.
Cex_C19_SplitAtFirstElsePlaceholder ==
  WorkMapped =>
    IF AtPositions(WorkName) # {}
    THEN /\ exp.f["title"] = PyStr(Strip(LeftPart(WorkName)))
         /\ exp.f["company"] = PyStr(Strip(RightPart(WorkName)))
    ELSE WorkName # <<>> =>
           /\ exp.f["company"] = PyStr(WorkName)
           /\ exp.f["title"] = PyStr(TextPosition)

\* C19, amended: a name holding " at " gives the trimmed part before its
\* first occurrence as title and the trimmed rest as company, the whole
\* name being the company when that rest is blank; a non-empty name without
\* " at " is the company, and the title is the member's roleName when the
\* member has one, the placeholder "Position" otherwise.
Thm_C19_SplitAtFirstElseRoleName ==
  WorkMapped =>
    IF AtPositions(WorkName) # {}
    THEN /\ exp.f["title"] = PyStr(Strip(LeftPart(WorkName)))
         /\ exp.f["company"] = IF Strip(RightPart(WorkName)) # <<>>
                               THEN PyStr(Strip(RightPart(WorkName)))
                               ELSE PyStr(WorkName)
    ELSE WorkName # <<>> =>
           /\ exp.f["company"] = PyStr(WorkName)
           /\ exp.f["title"] = IF HasKey(WorkMember, "roleName")
                               THEN WorkMember.f["roleName"]
                               ELSE PyStr(TextPosition)

\* a name with two " at " was mapped: the second stays in the company
Wit_C19_LaterAtStaysInCompany ==
  /\ WorkMapped
  /\ Cardinality(AtPositions(WorkName)) = 2
  /\ exp.f["title"] = PyStr(TextDev)
  /\ exp.f["company"] = PyStr(Strip(Cat(TextJo, Cat(TextAt, TextKa))))

(***************************************************************************)
(* Specification of BatchProcessor.process_batch                           *)
(* (src/src/batch/processor.py).  tasks[i] is the coroutine                *)
(* process_with_semaphore(profiles[i]); semaphore is the asyncio.Semaphore *)
(* of the batch: its value and its queue of waiters, a waiter being done   *)
(* once a release has handed it the semaphore.                             *)
(***************************************************************************)
\* the profiles of a batch are at most this many
MaxProfiles == 4

\* the limit of a processor is at most this
MaxConcurrent == 2

InitBatch ==
  /\ soup = EmptySoup
  /\ call = "none"
  /\ pc = "ready"
  /\ ret = PyNone
  /\ profile_data = PyNone
  /\ json_ld_data = PyNone
  /\ LoopIdle
  /\ profiles \in {[i \in 1..n |-> i] : n \in 0..MaxProfiles}
  /\ max_concurrent \in 0..MaxConcurrent
  /\ semaphore = PyNone
  /\ tasks = <<>>
  /\ results = <<>>
  /\ UtilIdle

\* Semaphore.locked()
Locked(sem) == sem.value = 0 \/ sem.waiters # <<>>

\* Semaphore._wake_up_next(): the first waiter not yet done takes the value
WakeUpNext(sem) ==
  LET waiting == {k \in 1..Len(sem.waiters) : ~sem.waiters[k].done} IN
    IF waiting = {} THEN sem
    ELSE LET k == CHOOSE w \in waiting : \A o \in waiting : w <= o
         IN [value |-> sem.value - 1,
             waiters |-> [sem.waiters EXCEPT ![k].done = TRUE]]

\* Semaphore.release()
Release(sem) == WakeUpNext([sem EXCEPT !.value = @ + 1])

RECURSIVE WakeWhilePositive(_)
\* the loop that ends Semaphore.acquire(): `while self._value > 0`
WakeWhilePositive(sem) ==
  IF sem.value > 0 /\ WakeUpNext(sem) # sem
  THEN WakeWhilePositive(WakeUpNext(sem))
  ELSE sem

\* the waiters of a semaphore without the one of task i
WithoutWaiter(sem, i) ==
  [sem EXCEPT !.waiters = SelectSeq(@, LAMBDA w : w.task # i)]

\* task i is inside _process_single_profile
Inside == {i \in DOMAIN tasks : tasks[i].pc = "inside"}

\* process_batch up to asyncio.gather: the semaphore and one task a profile
StartBatch ==
  /\ pc = "ready"
  /\ call' = "process_batch"
  /\ semaphore' = [value |-> max_concurrent, waiters |-> <<>>]
  /\ tasks' = [i \in 1..Len(profiles) |-> [pc |-> "created", result |-> PyNone]]
  /\ pc' = "gather"
  /\ UNCHANGED <<soup, ret, profile_data, json_ld_data, loop_vars,
                 profiles, max_concurrent, results>>
  /\ UNCHANGED util_vars

\* a task that enters _process_single_profile without the semaphore
EnterUnguarded(i) ==
  /\ pc = "gather"
  /\ i \in DOMAIN tasks
  /\ tasks[i].pc = "created"
  /\ tasks' = [tasks EXCEPT ![i].pc = "inside"]
  /\ semaphore' = [semaphore EXCEPT !.value = @ - 1]
  /\ UNCHANGED <<soup, call, pc, ret, profile_data, json_ld_data, loop_vars,
                 profiles, max_concurrent, results>>
  /\ UNCHANGED util_vars

\* `async with semaphore:` of task i: it takes the semaphore and enters
\* _process_single_profile, or waits in the queue
EnterSemaphore(i) ==
  /\ pc = "gather"
  /\ i \in DOMAIN tasks
  /\ tasks[i].pc = "created"
  /\ IF ~Locked(semaphore)
     THEN /\ semaphore' = [semaphore EXCEPT !.value = @ - 1]
          /\ tasks' = [tasks EXCEPT ![i].pc = "inside"]
     ELSE /\ semaphore' = [semaphore EXCEPT
                             !.waiters = Append(@, [task |-> i, done |-> FALSE])]
          /\ tasks' = [tasks EXCEPT ![i].pc = "waiting"]
  /\ UNCHANGED <<soup, call, pc, ret, profile_data, json_ld_data, loop_vars,
                 profiles, max_concurrent, results>>
  /\ UNCHANGED util_vars

\* task i wakes up with the semaphore and enters _process_single_profile
ResumeWaiter(i) ==
  /\ pc = "gather"
  /\ i \in DOMAIN tasks
  /\ tasks[i].pc = "waiting"
  /\ \E k \in 1..Len(semaphore.waiters) :
       semaphore.waiters[k].task = i /\ semaphore.waiters[k].done
  /\ semaphore' = WakeWhilePositive(WithoutWaiter(semaphore, i))
  /\ tasks' = [tasks EXCEPT ![i].pc = "inside"]
  /\ UNCHANGED <<soup, call, pc, ret, profile_data, json_ld_data, loop_vars,
                 profiles, max_concurrent, results>>
  /\ UNCHANGED util_vars

\* what _process_single_profile gives for profile i: the dict of a
\* success, the dict of a failure with or without the key error, or an
\* exception
Outcomes(i) ==
  {[kind |-> "dict", success |-> TRUE, profile_url |-> profiles[i], error |-> "absent"],
   [kind |-> "dict", success |-> FALSE, profile_url |-> profiles[i], error |-> "Scrape failed"],
   [kind |-> "dict", success |-> FALSE, profile_url |-> profiles[i], error |-> "absent"],
   [kind |-> "exception", success |-> FALSE, profile_url |-> profiles[i], error |-> "Boom"]}

\* _process_single_profile of task i returns a result or raises, and the
\* task leaves the `async with` block
FinishProfile(i) ==
  /\ pc = "gather"
  /\ i \in DOMAIN tasks
  /\ tasks[i].pc = "inside"
  /\ \E outcome \in Outcomes(i) :
       tasks' = [tasks EXCEPT ![i] = [pc |-> "done", result |-> outcome]]
  /\ semaphore' = Release(semaphore)
  /\ UNCHANGED <<soup, call, pc, ret, profile_data, json_ld_data, loop_vars,
                 profiles, max_concurrent, results>>
  /\ UNCHANGED util_vars

\* the entry of `failed` for a result: str(result) of an exception, else
\* result.get('error', 'Unknown error')
FailedEntry(profile, result) ==
  [profile |-> profile,
   error |-> IF result.kind = "exception" THEN result.error
             ELSE IF result.error = "absent" THEN "Unknown error"
             ELSE result.error]

RECURSIVE SuccessfulOf(_)
\* the list `successful` after the loop over the results
SuccessfulOf(rs) ==
  IF rs = <<>> THEN <<>>
  ELSE (IF rs[1].kind = "dict" /\ rs[1].success THEN <<rs[1]>> ELSE <<>>)
         \o SuccessfulOf(Tail(rs))

RECURSIVE FailedDroppingExceptions(_, _)
\* the list `failed` of a loop that passes over the exceptions
FailedDroppingExceptions(rs, ps) ==
  IF rs = <<>> THEN <<>>
  ELSE (IF rs[1].kind = "dict" /\ ~rs[1].success
        THEN <<FailedEntry(ps[1], rs[1])>> ELSE <<>>)
         \o FailedDroppingExceptions(Tail(rs), Tail(ps))

RECURSIVE FailedOf(_, _)
\* the list `failed` after the loop over the results
FailedOf(rs, ps) ==
  IF rs = <<>> THEN <<>>
  ELSE (IF rs[1].kind = "exception" \/ ~rs[1].success
        THEN <<FailedEntry(ps[1], rs[1])>> ELSE <<>>)
         \o FailedOf(Tail(rs), Tail(ps))

\* asyncio.gather returns, the results are sorted into successful and
\* failed, and process_batch returns the summary
GatherResults ==
  /\ pc = "gather"
  /\ \A i \in DOMAIN tasks : tasks[i].pc = "done"
  /\ results' = [i \in DOMAIN tasks |-> tasks[i].result]
  /\ ret' = [t |-> "summary",
             total |-> Len(profiles),
             successful |-> Len(SuccessfulOf(results')),
             failed |-> Len(FailedOf(results', profiles)),
             results |-> SuccessfulOf(results'),
             errors |-> FailedOf(results', profiles)]
  /\ pc' = "done"
  /\ UNCHANGED <<soup, call, profile_data, json_ld_data, loop_vars,
                 profiles, max_concurrent, semaphore, tasks>>
  /\ UNCHANGED util_vars

NextBatch ==
  \/ StartBatch
  \/ \E i \in 1..MaxProfiles : EnterSemaphore(i)
  \/ \E i \in 1..MaxProfiles : ResumeWaiter(i)
  \/ \E i \in 1..MaxProfiles : FinishProfile(i)
  \/ GatherResults

SpecBatch == InitBatch /\ [][NextBatch]_vars

(***************************************************************************)
(* Properties of process_batch.                                            *)
(***************************************************************************)
\* C20: at no moment are more than max_concurrent profiles inside
\* _process_single_profile, however many profiles the batch has and in
\* whatever order their processing ends.
Thm_C20_AtMostMaxConcurrentInside ==
  Cardinality(Inside) <= max_concurrent

\* the limit is reached while a task waits and another has ended by raising
Wit_C20_LimitReachedWithWaiter ==
  /\ pc = "gather"
  /\ max_concurrent = 2
  /\ Cardinality(Inside) = max_concurrent
  /\ \E i \in DOMAIN tasks : tasks[i].pc = "waiting"
  /\ \E i \in DOMAIN tasks : tasks[i].pc = "done" /\ tasks[i].result.kind = "exception"

\* process_batch has returned its summary
BatchReturned == call = "process_batch" /\ pc = "done"

\* the places of profile i in the list of the successful results and in the
\* list of the errors
InSuccessful(i) == {k \in 1..Len(ret.results) : ret.results[k].profile_url = profiles[i]}
InErrors(i) == {k \in 1..Len(ret.errors) : ret.errors[k].profile = profiles[i]}

\* C21: process_batch classifies every input profile exactly once: total is
\* the number of profiles and equals successful + failed; a profile whose
\* processing raised or reported success false is among the errors with its
\* error text, every other profile is among the successful results, all
\* profiles were processed, and the successful results are in input order.
Thm_C21_EveryProfileClassifiedOnce ==
  BatchReturned =>
    /\ ret.total = Len(profiles)
    /\ ret.total = ret.successful + ret.failed
    /\ ret.successful = Len(ret.results)
    /\ ret.failed = Len(ret.errors)
    /\ \A i \in DOMAIN profiles :
         /\ tasks[i].pc = "done"
         /\ Cardinality(InSuccessful(i)) + Cardinality(InErrors(i)) = 1
         /\ IF tasks[i].result.kind = "dict" /\ tasks[i].result.success
            THEN \E k \in InSuccessful(i) : ret.results[k] = tasks[i].result
            ELSE \E k \in InErrors(i) :
                   ret.errors[k].error =
                     IF tasks[i].result.error = "absent" THEN "Unknown error"
                     ELSE tasks[i].result.error
    /\ \A k, l \in 1..Len(ret.results) :
         k < l => ret.results[k].profile_url < ret.results[l].profile_url

\* a batch returned with a raised profile between two successful ones
Wit_C21_ExceptionBetweenSuccesses ==
  /\ BatchReturned
  /\ Len(profiles) >= 3
  /\ tasks[1].result.success
  /\ tasks[2].result.kind = "exception"
  /\ tasks[3].result.success
  /\ ret.successful >= 2
  /\ ret.failed >= 1

(***************************************************************************)
(* Specification of RateLimiter (src/src/security/rate_limiter.py).  The   *)
(* clock `now` counts half seconds, and tokens are counted in units of     *)
(* 1/120 token, so that requests_per_minute / 60.0 tokens a second is      *)
(* requests_per_minute units a tick.  Every method runs under self.lock    *)
(* and is one step.  log holds, for every allow_request, the time of the   *)
(* call and the answer, and for every reset its time.                      *)
(***************************************************************************)
\* the clock stops at this many ticks
MaxTime == 4

\* the requests of one run are at most this many
MaxCalls == 4

\* the ticks of one second
TicksPerSecond == 2

\* the units of one token
TokenUnits == 120

Min(a, b) == IF a <= b THEN a ELSE b

\* RateLimiter(requests_per_minute, burst_size) at time t
NewRateLimiter(requests_per_minute, burst_size, t) ==
  LET burst == IF Truthy(burst_size) THEN burst_size.n ELSE requests_per_minute IN
  [requests_per_minute |-> requests_per_minute,
   burst_size |-> burst,
   tokens |-> burst * TokenUnits,
   last_update |-> t]

\* the rates and the burst sizes of the limiters
Rates == {0, 30, 60}
BurstSizes == {PyNone, PyNum(0), PyNum(1), PyNum(2)}

InitBucket ==
  /\ soup = EmptySoup
  /\ call = "none"
  /\ pc = "ready"
  /\ ret = PyNone
  /\ profile_data = PyNone
  /\ json_ld_data = PyNone
  /\ LoopIdle
  /\ BatchIdle
  /\ RestIdle
  /\ now = 0
  /\ limiter \in {NewRateLimiter(r, b, 0) : r \in Rates, b \in BurstSizes}
  /\ log = <<>>

\* time passes
Tick ==
  /\ now < MaxTime
  /\ now' = now + 1
  /\ UNCHANGED <<soup, call, pc, ret, profile_data, json_ld_data, loop_vars,
                 batch_vars, limiter, log>>
  /\ UNCHANGED rest_vars

\* the tokens after a refill that forgets the cap
RefilledUncapped(l, t) == l.tokens + (t - l.last_update) * l.requests_per_minute

\* min(self.burst_size, self.tokens + time_passed * self.refill_rate)
Refilled(l, t) ==
  Min(l.burst_size * TokenUnits,
      l.tokens + (t - l.last_update) * l.requests_per_minute)

\* RateLimiter.allow_request
AllowRequest ==
  /\ limiter # PyNone
  /\ Len(log) < MaxCalls
  /\ call' = "allow_request"
  /\ LET tokens == Refilled(limiter, now) IN
       IF tokens >= TokenUnits
       THEN /\ limiter' = [limiter EXCEPT !.tokens = tokens - TokenUnits,
                                          !.last_update = now]
            /\ ret' = PyBool(TRUE)
       ELSE /\ limiter' = [limiter EXCEPT !.tokens = tokens, !.last_update = now]
            /\ ret' = PyBool(FALSE)
  /\ log' = Append(log, [op |-> "allow", time |-> now, allowed |-> ret'.b])
  /\ UNCHANGED <<soup, pc, profile_data, json_ld_data, loop_vars, batch_vars, now>>
  /\ UNCHANGED rest_vars

\* a time in seconds: num / den
Seconds(num, den) == [t |-> "seconds", num |-> num, den |-> den]

\* RateLimiter.get_wait_time: tokens_needed / self.refill_rate, which
\* raises ZeroDivisionError when the rate is 0
WaitTime(l) ==
  IF l.tokens >= TokenUnits THEN Seconds(0, 1)
  ELSE IF l.requests_per_minute = 0 THEN Raise
  ELSE Seconds(TokenUnits - l.tokens, TicksPerSecond * l.requests_per_minute)

GetWaitTime ==
  /\ limiter # PyNone
  /\ call' = "get_wait_time"
  /\ ret' = WaitTime(limiter)
  /\ UNCHANGED <<soup, pc, profile_data, json_ld_data, loop_vars, batch_vars,
                 limiter_vars>>
  /\ UNCHANGED rest_vars

\* RateLimiter.reset
ResetLimiter ==
  /\ limiter # PyNone
  /\ Len(log) < MaxCalls
  /\ call' = "reset"
  /\ ret' = PyNone
  /\ limiter' = [limiter EXCEPT !.tokens = limiter.burst_size * TokenUnits,
                                !.last_update = now]
  /\ log' = Append(log, [op |-> "reset", time |-> now, allowed |-> FALSE])
  /\ UNCHANGED <<soup, pc, profile_data, json_ld_data, loop_vars, batch_vars, now>>
  /\ UNCHANGED rest_vars

NextBucket == Tick \/ AllowRequest \/ GetWaitTime \/ ResetLimiter

SpecBucket == InitBucket /\ [][NextBucket]_vars

(***************************************************************************)
(* Properties of RateLimiter.                                              *)
(***************************************************************************)
\* the step is a call of allow_request
AllowStep == Len(log') = Len(log) + 1 /\ log'[Len(log')].op = "allow"

\* the tokens a call at time `now` finds after the refill
Available ==
  LET grown == limiter.tokens + (now - limiter.last_update) * limiter.requests_per_minute
  IN IF grown > limiter.burst_size * TokenUnits
     THEN limiter.burst_size * TokenUnits ELSE grown

\* a request is granted iff a whole token is available after the refill, and
\* only a granted request consumes a token
GrantRule ==
  AllowStep =>
    /\ ret'.b <=> (Available >= TokenUnits)
    /\ limiter'.tokens = IF ret'.b THEN Available - TokenUnits ELSE Available

TokensInRange ==
  /\ limiter.tokens >= 0
  /\ limiter.tokens <= limiter.burst_size * TokenUnits

\* the requests granted at time t
GrantedAt(t) == {k \in 1..Len(log) : log[k].op = "allow" /\ log[k].time = t /\ log[k].allowed}

\* the last reset of the log, 0 when there is none
LastReset ==
  LET resets == {k \in 1..Len(log) : log[k].op = "reset"} IN
  IF resets = {} THEN 0 ELSE CHOOSE k \in resets : \A j \in resets : j <= k

\* the calls of allow_request, in order
Requests == SelectSeq(log, LAMBDA e : e.op = "allow")

\* the limiter of 60 requests a minute and burst 1
OneASecond == limiter.requests_per_minute = 60 /\ limiter.burst_size = 1

\* the request of this step comes half a second after a granted one
HalfSecondAfterGrant ==
  /\ AllowStep /\ OneASecond /\ Len(Requests) >= 1
  /\ Requests[Len(Requests)].allowed
  /\ now = Requests[Len(Requests)].time + 1

\* the request of this step comes half a second after one that was denied
\* half a second after a granted one
FurtherHalfSecond ==
  /\ AllowStep /\ OneASecond /\ Len(Requests) >= 2
  /\ Requests[Len(Requests) - 1].allowed
  /\ ~Requests[Len(Requests)].allowed
  /\ Requests[Len(Requests)].time = Requests[Len(Requests) - 1].time + 1
  /\ now = Requests[Len(Requests)].time + 1

\* C22, as stated: allow_request grants a request iff at least one whole
\* token is available after the refill, capped at burst_size, and a denied
\* request consumes no token; the token count stays within 0..burst_size; no
\* more than burst_size requests are granted while no time passes; with 60
\* requests a minute and burst 1, the request half a second after the one
\* that used the token is denied and the one a further half second later is
\* granted.
Cex_C22_BurstAtOneInstant ==
  [][/\ GrantRule
     /\ TokensInRange'
     /\ \A t \in 0..MaxTime : Cardinality(GrantedAt(t)') <= limiter'.burst_size
     /\ HalfSecondAfterGrant => ~ret'.b
     /\ FurtherHalfSecond => ret'.b
    ]_vars

\* C22, amended: allow_request grants a request iff at least one whole
\* token is available after the refill, capped at burst_size, and a denied
\* request consumes no token; the token count stays within 0..burst_size; no
\* more than burst_size requests are granted while no time passes and
\* reset() is not called; with 60 requests a minute and burst 1, the request
\* half a second after the one that used the token is denied unless reset()
\* was called since, and the one a further half second later is granted.
Thm_C22_GrantIffWholeToken ==
  [][/\ GrantRule
     /\ TokensInRange'
     /\ \A t \in 0..MaxTime :
          Cardinality({k \in GrantedAt(t)' : k > LastReset'}) <= limiter'.burst_size
     /\ (HalfSecondAfterGrant /\ log[Len(log)].op = "allow") => ~ret'.b
     /\ FurtherHalfSecond => ret'.b
    ]_vars

\* the 60-a-minute, burst-1 limiter granted, denied half a second later and
\* granted a further half second later
Wit_C22_DeniedThenGranted ==
  /\ limiter # PyNone
  /\ OneASecond
  /\ Len(log) = 3
  /\ log[1].allowed /\ ~log[2].allowed /\ log[3].allowed
  /\ log[2].op = "allow"
  /\ log[2].time = log[1].time + 1
  /\ log[3].time = log[2].time + 1

\* the step is a call of get_wait_time
WaitStep ==
  call' = "get_wait_time" /\ now' = now /\ limiter' = limiter /\ log' = log

\* C24: get_wait_time returns 0 exactly when a request made now would be
\* allowed, and otherwise a positive, finite number of seconds (for the
\* limiter of 60 a minute and burst 1 whose token was just used, more than 0
\* and at most 1); it never fails, whatever the configured rate.
Cex_C24_WaitZeroIffAllowedNow ==
  [][WaitStep =>
       /\ ret' # Raise
       /\ ret'.num >= 0 /\ ret'.den > 0
       /\ (ret'.num = 0) <=> (Available >= TokenUnits)
       /\ (OneASecond /\ Len(log) >= 1 /\ log[Len(log)].op = "allow"
             /\ log[Len(log)].allowed /\ log[Len(log)].time = now)
            => (ret'.num > 0 /\ ret'.num <= ret'.den)
    ]_vars

(***************************************************************************)
(* Specification of SlidingWindowRateLimiter (rate_limiter.py:72-146).     *)
(* requests is the deque of the times of the recorded requests, oldest     *)
(* first; window_size is counted in ticks.  Every method runs under        *)
(* self.lock and is one step, so the steps of the specification are the    *)
(* interleavings of the calls of any number of threads.                    *)
(***************************************************************************)
\* SlidingWindowRateLimiter(requests_per_minute, window_size_seconds)
NewSlidingWindow(requests_per_minute, window_size_seconds) ==
  [requests_per_minute |-> requests_per_minute,
   window_size |-> window_size_seconds * TicksPerSecond,
   requests |-> <<>>]

\* the limits and the windows, in seconds, of the limiters
Limits == {0, 1, 2}
WindowSizes == {0, 1}

InitWindow ==
  /\ soup = EmptySoup
  /\ call = "none"
  /\ pc = "ready"
  /\ ret = PyNone
  /\ profile_data = PyNone
  /\ json_ld_data = PyNone
  /\ LoopIdle
  /\ BatchIdle
  /\ RestIdle
  /\ now = 0
  /\ limiter \in {NewSlidingWindow(r, w) : r \in Limits, w \in WindowSizes}
  /\ log = <<>>

\* while self.requests and self.requests[0][0] < cutoff: popleft()
RECURSIVE Pruned(_, _)
Pruned(requests, cutoff) ==
  IF requests # <<>> /\ requests[1] < cutoff
  THEN Pruned(Tail(requests), cutoff)
  ELSE requests

\* a limit that admits a request more
UnderLimitInclusive(l, requests) == Len(requests) <= l.requests_per_minute

\* len(self.requests) < self.requests_per_minute
UnderLimit(l, requests) == Len(requests) < l.requests_per_minute

\* SlidingWindowRateLimiter.allow_request
SlidingAllowRequest ==
  /\ limiter # PyNone
  /\ Len(log) < MaxCalls
  /\ call' = "allow_request"
  /\ LET requests == Pruned(limiter.requests, now - limiter.window_size) IN
       IF UnderLimit(limiter, requests)
       THEN /\ limiter' = [limiter EXCEPT !.requests = Append(requests, now)]
            /\ ret' = PyBool(TRUE)
       ELSE /\ limiter' = [limiter EXCEPT !.requests = requests]
            /\ ret' = PyBool(FALSE)
  /\ log' = Append(log, [op |-> "allow", time |-> now, allowed |-> ret'.b])
  /\ UNCHANGED <<soup, pc, profile_data, json_ld_data, loop_vars, batch_vars, now>>
  /\ UNCHANGED rest_vars

\* SlidingWindowRateLimiter.get_request_count
SlidingGetRequestCount ==
  /\ limiter # PyNone
  /\ call' = "get_request_count"
  /\ LET requests == Pruned(limiter.requests, now - limiter.window_size) IN
       /\ limiter' = [limiter EXCEPT !.requests = requests]
       /\ ret' = PyNum(Len(requests))
  /\ UNCHANGED <<soup, pc, profile_data, json_ld_data, loop_vars, batch_vars, now, log>>
  /\ UNCHANGED rest_vars

\* SlidingWindowRateLimiter.get_wait_time: self.requests[0] raises
\* IndexError when the deque is empty
SlidingWaitTime(l, t) ==
  IF Len(l.requests) < l.requests_per_minute THEN Seconds(0, 1)
  ELSE IF l.requests = <<>> THEN Raise
  ELSE LET wait == l.requests[1] + l.window_size - t
       IN Seconds(IF wait > 0 THEN wait ELSE 0, TicksPerSecond)

SlidingGetWaitTime ==
  /\ limiter # PyNone
  /\ call' = "get_wait_time"
  /\ ret' = SlidingWaitTime(limiter, now)
  /\ UNCHANGED <<soup, pc, profile_data, json_ld_data, loop_vars, batch_vars,
                 limiter_vars>>
  /\ UNCHANGED rest_vars

NextWindow ==
  Tick \/ SlidingAllowRequest \/ SlidingGetRequestCount \/ SlidingGetWaitTime

SpecWindow == InitWindow /\ [][NextWindow]_vars

(***************************************************************************)
(* Properties of SlidingWindowRateLimiter.                                 *)
(***************************************************************************)
\* the requests granted from time t to time t + span
GrantedWithin(t, span) ==
  {k \in 1..Len(log) : log[k].allowed /\ t <= log[k].time /\ log[k].time <= t + span}

\* the recorded requests that a call at time t still counts
InWindow(t) ==
  SelectSeq(limiter.requests, LAMBDA r : r >= t - limiter.window_size)

\* the step is a call of get_request_count
CountStep == call' = "get_request_count" /\ now' = now /\ log' = log

\* C23: within any span of window_size_seconds at most requests_per_minute
\* requests are granted, in whatever order the calls of allow_request and
\* get_request_count come; a denied request is not recorded, so that the
\* count of the window and the recorded requests are those the same moment
\* had without it; and once the oldest recorded request is older than the
\* window, the next request is granted.
Thm_C23_AtMostLimitPerWindow ==
  [][/\ \A t \in 0..MaxTime :
          Cardinality(GrantedWithin(t, limiter.window_size)') <= limiter'.requests_per_minute
     /\ (AllowStep /\ ~ret'.b) => limiter'.requests = InWindow(now)
     /\ (AllowStep /\ ret'.b) => limiter'.requests = Append(InWindow(now), now)
     /\ CountStep => ret'.n = Len(InWindow(now))
     /\ (AllowStep /\ limiter.requests # <<>>
           /\ limiter.requests[1] + limiter.window_size < now) => ret'.b
    ]_vars

\* a full window denied a request and, once its oldest request was older
\* than the window, granted the next
Wit_C23_GrantedAfterExpiry ==
  /\ limiter # PyNone
  /\ "window_size" \in DOMAIN limiter
  /\ limiter.requests_per_minute = 2
  /\ Len(log) = 4
  /\ log[1].allowed /\ log[2].allowed /\ ~log[3].allowed /\ log[4].allowed
  /\ log[3].time = log[1].time
  /\ log[4].time > log[1].time + limiter.window_size
  /\ limiter.requests = <<log[4].time>>

(***************************************************************************)
(* Specification of MultiKeyRateLimiter (rate_limiter.py:149-239), called  *)
(* by several threads.  limiter.limiters maps the keys in use to the       *)
(* deques of their SlidingWindowRateLimiter.  A method that leaves         *)
(* self.lock before it reads self.limiters[key] takes two steps, and any   *)
(* step of another thread may come between them.  call and ret hold the    *)
(* method that returned last and its result, for cleanup_old_limiters its  *)
(* argument.  The clock advances by half minutes.                          *)
(***************************************************************************)
\* the threads that share the limiter
Threads == {"one", "another"}

\* window_size_seconds of the per-key limiters
DefaultWindowSeconds == 60

DefaultWindow == DefaultWindowSeconds * TicksPerSecond

HalfMinute == DefaultWindow \div 2

Keys == {"user1", "user2"}

\* inactive_seconds of cleanup_old_limiters
InactiveSeconds == {0, 30, 90}

KeyedMethods == {"allow_request", "get_wait_time", "get_request_count"}

KeyError == [t |-> "raise", error |-> "KeyError"]

IdleThread == [pc |-> "idle", op |-> "none", key |-> "none"]

\* MultiKeyRateLimiter(requests_per_minute)
NewMultiKey(requests_per_minute) ==
  [requests_per_minute |-> requests_per_minute, limiters |-> <<>>]

InitMultiKey ==
  /\ soup = EmptySoup
  /\ call = "none"
  /\ pc = "ready"
  /\ ret = PyNone
  /\ profile_data = PyNone
  /\ json_ld_data = PyNone
  /\ LoopIdle
  /\ BatchIdle
  /\ now = 0
  /\ limiter \in {NewMultiKey(r) : r \in {1, 2}}
  /\ log = <<>>
  /\ threads = [th \in Threads |-> IdleThread]
  /\ cache = PyNone
  /\ fs = PyNone

\* half a minute passes
TickHalfMinute ==
  /\ now < MaxTime * HalfMinute
  /\ now' = now + HalfMinute
  /\ UNCHANGED <<soup, call, pc, ret, profile_data, json_ld_data, loop_vars,
                 batch_vars, limiter, log, rest_vars>>

\* the per-key limiter of key k
LimiterOf(k) ==
  [requests_per_minute |-> limiter.requests_per_minute,
   window_size |-> DefaultWindow,
   requests |-> limiter.limiters[k]]

\* self.limiters with the deque of key k replaced
WithRequests(k, requests) ==
  [j \in DOMAIN limiter.limiters \cup {k} |->
     IF j = k THEN requests ELSE limiter.limiters[j]]

\* the part of allow_request, get_wait_time and get_request_count that runs
\* under self.lock
EnterKeyed(th, op, k) ==
  /\ threads[th].pc = "idle"
  /\ IF op = "allow_request"
     THEN /\ limiter' = IF k \in DOMAIN limiter.limiters THEN limiter
                        ELSE [limiter EXCEPT !.limiters = WithRequests(k, <<>>)]
          /\ threads' = [threads EXCEPT ![th] = [pc |-> "use", op |-> op, key |-> k]]
          /\ UNCHANGED <<call, ret>>
     ELSE IF k \in DOMAIN limiter.limiters
     THEN /\ threads' = [threads EXCEPT ![th] = [pc |-> "use", op |-> op, key |-> k]]
          /\ UNCHANGED <<limiter, call, ret>>
     ELSE /\ call' = op
          /\ ret' = PyNum(0)
          /\ UNCHANGED <<limiter, threads>>
  /\ UNCHANGED <<soup, pc, profile_data, json_ld_data, loop_vars,
                 batch_vars, now, log, cache, fs>>

\* the result and the deque that a method of the per-key limiter leaves
KeyedCall(op, l, t) ==
  LET requests == Pruned(l.requests, t - l.window_size) IN
  IF op = "allow_request"
  THEN IF UnderLimit(l, requests)
       THEN [result |-> PyBool(TRUE), requests |-> Append(requests, t)]
       ELSE [result |-> PyBool(FALSE), requests |-> requests]
  ELSE IF op = "get_request_count"
  THEN [result |-> PyNum(Len(requests)), requests |-> requests]
  ELSE [result |-> SlidingWaitTime(l, t), requests |-> l.requests]

\* return self.limiters[key].<method>(), outside self.lock
UseLimiter(th) ==
  /\ threads[th].pc = "use"
  /\ threads' = [threads EXCEPT ![th] = IdleThread]
  /\ call' = threads[th].op
  /\ LET k == threads[th].key IN
       IF k \notin DOMAIN limiter.limiters
       THEN /\ ret' = KeyError
            /\ limiter' = limiter
       ELSE LET done == KeyedCall(threads[th].op, LimiterOf(k), now) IN
            /\ ret' = done.result
            /\ limiter' = [limiter EXCEPT !.limiters = WithRequests(k, done.requests)]
  /\ UNCHANGED <<soup, pc, profile_data, json_ld_data, loop_vars,
                 batch_vars, now, log, cache, fs>>

\* MultiKeyRateLimiter.reset: key is a key or None
ResetKeys(th, key) ==
  /\ threads[th].pc = "idle"
  /\ call' = "reset"
  /\ ret' = PyNone
  /\ limiter' = [limiter EXCEPT !.limiters =
                   IF key # "none"
                   THEN IF key \in DOMAIN limiter.limiters
                        THEN WithRequests(key, <<>>) ELSE limiter.limiters
                   ELSE <<>>]
  /\ UNCHANGED <<soup, pc, profile_data, json_ld_data, loop_vars,
                 batch_vars, now, log, rest_vars>>

\* the deque of key k after limiter.get_request_count()
Counted(k) == Pruned(limiter.limiters[k], now - DefaultWindow)

\* keys_to_remove of cleanup_old_limiters
KeysToRemove(inactive) ==
  {k \in DOMAIN limiter.limiters :
     /\ Len(Counted(k)) = 0
     /\ Counted(k) # <<>>
     /\ now - Counted(k)[Len(Counted(k))] > inactive}

\* MultiKeyRateLimiter.cleanup_old_limiters
CleanupOldLimiters(th, inactive_seconds) ==
  /\ threads[th].pc = "idle"
  /\ call' = "cleanup_old_limiters"
  /\ ret' = PyNum(inactive_seconds)
  /\ limiter' = [limiter EXCEPT !.limiters =
                   [k \in DOMAIN limiter.limiters
                        \ KeysToRemove(inactive_seconds * TicksPerSecond) |-> Counted(k)]]
  /\ UNCHANGED <<soup, pc, profile_data, json_ld_data, loop_vars,
                 batch_vars, now, log, rest_vars>>

NextMultiKey ==
  \/ TickHalfMinute
  \/ \E th \in Threads, op \in KeyedMethods, k \in Keys : EnterKeyed(th, op, k)
  \/ \E th \in Threads : UseLimiter(th)
  \/ \E th \in Threads, key \in Keys \cup {"none"} : ResetKeys(th, key)
  \/ \E th \in Threads, s \in InactiveSeconds : CleanupOldLimiters(th, s)

SpecMultiKey == InitMultiKey /\ [][NextMultiKey]_vars

(***************************************************************************)
(* Properties of MultiKeyRateLimiter.                                      *)
(***************************************************************************)
\* the step is a call of cleanup_old_limiters
CleanupStep ==
  call' = "cleanup_old_limiters" /\ threads' = threads /\ now' = now

\* the time of the last request recorded for key k
LastRequest(k) == limiter.limiters[k][Len(limiter.limiters[k])]

\* C25: cleanup_old_limiters(inactive_seconds) removes every per-key
\* limiter whose last request is older than inactive_seconds and keeps every
\* limiter that was used more recently.
Cex_C25_CleanupRemovesInactive ==
  [][CleanupStep =>
       \A k \in DOMAIN limiter.limiters :
         limiter.limiters[k] # <<>> =>
           (k \notin DOMAIN limiter'.limiters
              <=> now - LastRequest(k) > ret'.n * TicksPerSecond)
    ]_vars

\* C28: allow_request(key), get_request_count(key) and get_wait_time(key)
\* of one thread, interleaved with reset() or reset(key) of another, each
\* complete normally: none fails because the limiter of its key went away
\* between the test under the lock and the use.
Cex_C28_NoCallFailsOnMissingLimiter ==
  ret # KeyError

(***************************************************************************)
(* Specification of SimpleCache (src/src/utils/cache.py).  cache.files     *)
(* maps <<key, extension>> to the content of the cache file of that name,  *)
(* cache.meta maps a key to the timestamp of its metadata file; ttl is     *)
(* counted in ticks.  call holds the latest call and its arguments, ret    *)
(* its result, and log the calls of set and delete.                        *)
(***************************************************************************)
PyBytes(s) == [t |-> "bytes", s |-> s]

\* the bytes that pickle.dump(value, f) writes
Pickled(value) == [t |-> "bytes", pickle |-> value]

\* str(value)
TextOf(value) ==
  IF value.t = "bytes"
  THEN Cat(Lit(<<"b", "'">>), Cat(value.s, Lit(<<"'">>)))
  ELSE Str(value)

\* extension in ['txt', 'json', 'html', 'css']
TextExtensions == {"txt", "json", "html", "css"}

\* the content that set writes: text for a text extension (the branch for
\* 'json' alone is never reached), the bytes or the pickle otherwise
Written(value, extension) ==
  IF extension \in TextExtensions
  THEN [mode |-> "text", data |-> IF value.t = "str" THEN value.s ELSE TextOf(value)]
  ELSE [mode |-> "binary", data |-> IF value.t = "bytes" THEN value ELSE Pickled(value)]

\* what get reads back: f.read() of a text file or of a binary file
ReadBack(content) ==
  IF content.mode = "text" THEN PyStr(content.data) ELSE content.data

\* SimpleCache(cache_dir, ttl) on an empty directory
NewCache(ttl) == [ttl |-> ttl * TicksPerSecond, files |-> <<>>, meta |-> <<>>]

\* the calls of set and delete of one run are at most this many
MaxCacheCalls == 2

CacheKeys == {"k1", "k2"}
Extensions == {"cache", "json"}
CacheValues == {PyStr(TextJo), PyBytes(TextJo)}
Ttls == {0, 1}

InitCache ==
  /\ soup = EmptySoup
  /\ call = <<"none">>
  /\ pc = "ready"
  /\ ret = PyNone
  /\ profile_data = PyNone
  /\ json_ld_data = PyNone
  /\ LoopIdle
  /\ BatchIdle
  /\ LimiterIdle
  /\ threads = <<>>
  /\ cache \in {NewCache(ttl) : ttl \in Ttls}
  /\ fs = PyNone

\* SimpleCache._is_valid, at time t
IsValid(c, key, t) ==
  /\ key \in DOMAIN c.meta
  /\ t - c.meta[key] < c.ttl

\* a function with one more pair
Put(f, x, y) == [z \in DOMAIN f \cup {x} |-> IF z = x THEN y ELSE f[z]]

\* a function without the arguments in gone
Without(f, gone) == [z \in DOMAIN f \ gone |-> f[z]]

\* SimpleCache.set
CacheSet(key, value, extension) ==
  /\ cache # PyNone
  /\ Len(log) < MaxCacheCalls
  /\ call' = <<"set", key, extension>>
  /\ ret' = PyNone
  /\ cache' = [cache EXCEPT
                 !.files = Put(cache.files, <<key, extension>>, Written(value, extension)),
                 !.meta = Put(cache.meta, key, now)]
  /\ log' = Append(log, [op |-> "set", key |-> key, extension |-> extension,
                         value |-> value, time |-> now])
  /\ UNCHANGED <<soup, pc, profile_data, json_ld_data, loop_vars, batch_vars,
                 now, limiter, threads, fs>>

\* SimpleCache.get
CacheGet(key, extension) ==
  /\ cache # PyNone
  /\ call' = <<"get", key, extension>>
  /\ ret' = IF <<key, extension>> \notin DOMAIN cache.files \/ ~IsValid(cache, key, now)
            THEN PyNone
            ELSE ReadBack(cache.files[<<key, extension>>])
  /\ UNCHANGED <<soup, pc, profile_data, json_ld_data, loop_vars, batch_vars,
                 limiter_vars, rest_vars>>

\* SimpleCache.delete
CacheDelete(key) ==
  /\ cache # PyNone
  /\ Len(log) < MaxCacheCalls
  /\ call' = <<"delete", key>>
  /\ ret' = PyNone
  /\ cache' = [cache EXCEPT
                 !.files = Without(cache.files, {f \in DOMAIN cache.files : f[1] = key}),
                 !.meta = Without(cache.meta, {key})]
  /\ log' = Append(log, [op |-> "delete", key |-> key, extension |-> "none",
                         value |-> PyNone, time |-> now])
  /\ UNCHANGED <<soup, pc, profile_data, json_ld_data, loop_vars, batch_vars,
                 now, limiter, threads, fs>>

\* the keys whose metadata cleanup_expired finds not valid
Expired(c, t) == {key \in DOMAIN c.meta : ~IsValid(c, key, t)}

\* SimpleCache.cleanup_expired
CleanupExpired ==
  /\ cache # PyNone
  /\ call' = <<"cleanup_expired">>
  /\ ret' = PyNum(Cardinality(Expired(cache, now)))
  /\ cache' = [cache EXCEPT
                 !.files = Without(cache.files,
                                   {f \in DOMAIN cache.files : f[1] \in Expired(cache, now)}),
                 !.meta = Without(cache.meta, Expired(cache, now))]
  /\ UNCHANGED <<soup, pc, profile_data, json_ld_data, loop_vars, batch_vars,
                 limiter_vars, threads, fs>>

NextCache ==
  \/ Tick
  \/ \E key \in CacheKeys, value \in CacheValues, extension \in Extensions :
       CacheSet(key, value, extension)
  \/ \E key \in CacheKeys, extension \in Extensions : CacheGet(key, extension)
  \/ \E key \in CacheKeys : CacheDelete(key)
  \/ CleanupExpired

SpecCache == InitCache /\ [][NextCache]_vars

(***************************************************************************)
(* Properties of SimpleCache.                                              *)
(***************************************************************************)
\* the calls of set(key, ..., extension) since the last delete(key)
SetsOf(key, extension) ==
  {k \in 1..Len(log) :
     /\ log[k].op = "set" /\ log[k].key = key /\ log[k].extension = extension
     /\ \A j \in k..Len(log) : ~(log[j].op = "delete" /\ log[j].key = key)}

Latest(calls) == CHOOSE k \in calls : \A j \in calls : j <= k

\* the entry is live: it was set, and its age is below ttl
Live(key, extension) ==
  /\ SetsOf(key, extension) # {}
  /\ now - log[Latest(SetsOf(key, extension))].time < cache.ttl

\* the step is get(key, extension)
GetStep(key, extension) ==
  call' = <<"get", key, extension>> /\ now' = now /\ cache' = cache

\* the step is cleanup_expired()
ExpiryStep == call' = <<"cleanup_expired">> /\ now' = now /\ log' = log

\* get returns None exactly for an entry that is not live
NoneIffNotLive ==
  \A key \in CacheKeys, extension \in Extensions :
    GetStep(key, extension) => (ret' = PyNone <=> ~Live(key, extension))

\* get returns the value that the latest set stored
ReadsStoredValue ==
  \A key \in CacheKeys, extension \in Extensions :
    (GetStep(key, extension) /\ Live(key, extension)) =>
      ret' = log[Latest(SetsOf(key, extension))].value

\* cleanup_expired removes the entries that are not live, returns their
\* number and keeps the others as they are
RemovesNotLive ==
  ExpiryStep =>
    /\ DOMAIN cache'.files = {f \in DOMAIN cache.files : Live(f[1], f[2])}
    /\ ret'.n = Cardinality({f \in DOMAIN cache.files : ~Live(f[1], f[2])})
    /\ \A f \in DOMAIN cache'.files : cache'.files[f] = cache.files[f]

\* with ttl 0 no entry is live
NothingLiveAtZero ==
  cache.ttl = 0 => \A key \in CacheKeys, extension \in Extensions : ~Live(key, extension)

\* C26: an entry is live iff its age is below ttl; get returns the value
\* stored by set while the entry is live and None once it has expired or
\* was never set; with ttl 0 every entry is expired; cleanup_expired removes
\* exactly the entries that are not live, returns their number and leaves
\* the live entries readable.
Cex_C26_GetReturnsStoredValue ==
  [][NoneIffNotLive /\ ReadsStoredValue /\ RemovesNotLive /\ NothingLiveAtZero']_vars

\* every key was set with one extension only
OneExtensionPerKey ==
  \A j, k \in 1..Len(log) :
    (log[j].op = "set" /\ log[k].op = "set" /\ log[j].key = log[k].key)
      => log[j].extension = log[k].extension

\* the rules of expiry alone, whatever the value read back, for keys that
\* are set with one extension
CacheExpiryRules ==
  [][OneExtensionPerKey =>
       (NoneIffNotLive /\ RemovesNotLive /\ NothingLiveAtZero')]_vars

(***************************************************************************)
(* Every role once.                                                        *)
(***************************************************************************)
\* the items of the list containers that lie in no item
TopLevelItems(section) == Flatten(section.uls)

\* C27: the nested items of a grouped experience item appear only in the
\* roles of its entry and give no entries of their own, so that the
\* experience list holds at most one entry for every top-level item of the
\* section.
Cex_C27_AtMostOneEntryPerTopLevelItem ==
  (pc = "done" /\ call = "experience" /\ soup.experience # PyNone) =>
    /\ Len(ret.v) <= Len(TopLevelItems(soup.experience))
    /\ ret.v = ExperiencesOf(TopLevelItems(soup.experience))

(***************************************************************************)
(* Specification of the three stages of the command line (src/src/cli.py). *)
(* fs maps a user to the files of output/<user>: the html directory, its   *)
(* metadata.json, its profile.html ("ok", or "raises" for a page on which  *)
(* ProfileParser.parse raises), the html file of a detail section,         *)
(* profile_data.json and a PDF.  A step is one run of the program; call    *)
(* holds its option and user, ret its exit status, and log the latest runs.*)
(***************************************************************************)
\* the runs that log remembers: extract, parse, generate
WorkflowLength == 3

Users == {"jo", "ka"}

NoFiles ==
  [html |-> FALSE, metadata |-> FALSE, profile |-> "none", details |-> FALSE,
   json |-> FALSE, pdf |-> FALSE]

\* what scrape_all_sections answers: an exception, or the profile page and
\* whether a detail section (experience, education, ...) has content
Scrapes ==
  {Raise} \cup
  {[t |-> "sections", profile |-> p, details |-> d] :
     p \in {"none", "ok", "raises"}, d \in BOOLEAN}

InitCli ==
  /\ soup = EmptySoup
  /\ call = <<"none">>
  /\ pc = "ready"
  /\ ret = PyNone
  /\ profile_data = PyNone
  /\ json_ld_data = PyNone
  /\ LoopIdle
  /\ BatchIdle
  /\ LimiterIdle
  /\ threads = <<>>
  /\ cache = PyNone
  /\ fs = [u \in Users |-> NoFiles]

\* the latest runs with one more
Logged(stage, user, status) ==
  LET all == Append(log, [stage |-> stage, user |-> user, status |-> status])
  IN IF Len(all) > WorkflowLength THEN Tail(all) ELSE all

\* main with --extract-html: extract_all_html
extract_all_html(user, scraped) ==
  /\ fs # PyNone
  /\ call' = <<"--extract-html", user>>
  /\ IF scraped = Raise
     THEN /\ fs' = [fs EXCEPT ![user].html = TRUE]
          /\ ret' = PyNum(1)
     ELSE /\ fs' = [fs EXCEPT
                      ![user].html = TRUE,
                      ![user].profile = IF scraped.profile # "none" THEN scraped.profile
                                        ELSE fs[user].profile,
                      ![user].details = fs[user].details \/ scraped.details,
                      ![user].metadata = TRUE]
          /\ ret' = PyNum(0)
  /\ log' = Logged("extract", user, ret'.n)
  /\ UNCHANGED <<soup, pc, profile_data, json_ld_data, loop_vars, batch_vars,
                 now, limiter, threads, cache>>

\* parse_html_to_json raises: no html directory, no metadata.json, parse
\* raises on profile.html, or a parse_*_detail method is looked up
ParseHtmlRaises(files) ==
  \/ ~files.html
  \/ ~files.metadata
  \/ files.profile = "raises"
  \/ files.details

\* main with --parse-html: parse_html_to_json
parse_html_to_json(user) ==
  /\ fs # PyNone
  /\ call' = <<"--parse-html", user>>
  /\ IF ParseHtmlRaises(fs[user])
     THEN /\ fs' = fs
          /\ ret' = PyNum(1)
     ELSE /\ fs' = [fs EXCEPT ![user] = [NoFiles EXCEPT !.json = TRUE,
                                                       !.pdf = fs[user].pdf]]
          /\ ret' = PyNum(0)
  /\ log' = Logged("parse", user, ret'.n)
  /\ UNCHANGED <<soup, pc, profile_data, json_ld_data, loop_vars, batch_vars,
                 now, limiter, threads, cache>>

\* main with --generate-pdf: generate_pdf_from_json
generate_pdf_from_json(user) ==
  /\ fs # PyNone
  /\ call' = <<"--generate-pdf", user>>
  /\ IF ~fs[user].json
     THEN /\ fs' = fs
          /\ ret' = PyNum(1)
     ELSE /\ fs' = [fs EXCEPT ![user] = [NoFiles EXCEPT !.pdf = TRUE]]
          /\ ret' = PyNum(0)
  /\ log' = Logged("generate", user, ret'.n)
  /\ UNCHANGED <<soup, pc, profile_data, json_ld_data, loop_vars, batch_vars,
                 now, limiter, threads, cache>>

NextCli ==
  \/ \E user \in Users, scraped \in Scrapes : extract_all_html(user, scraped)
  \/ \E user \in Users : parse_html_to_json(user)
  \/ \E user \in Users : generate_pdf_from_json(user)

SpecCli == InitCli /\ [][NextCli]_vars

(***************************************************************************)
(* Properties of the stages.                                               *)
(***************************************************************************)
\* the step is a run of the option for the user
StageRun(option, user) == call' = <<option, user>> /\ <<fs, log, ret>>' # <<fs, log, ret>>

\* the run before this step was the stage for the user, with the status
Preceded(stage, user, status) ==
  /\ log # <<>>
  /\ log[Len(log)] = [stage |-> stage, user |-> user, status |-> status]

\* C30: --parse-html fails unless the html directory of the user with its
\* metadata.json is there, and on success writes profile_data.json and
\* removes the html directory; --generate-pdf fails unless profile_data.json
\* is there, and on success removes it; a stage run twice in a row fails the
\* second time; and after a successful extract, parse succeeds, and generate
\* after it.
Cex_C30_ExtractParseGenerateSucceeds ==
  [][\A user \in Users :
       /\ StageRun("--parse-html", user) =>
            /\ ~(fs[user].html /\ fs[user].metadata) => ret'.n = 1
            /\ ret'.n = 0 => (fs'[user].json /\ ~fs'[user].html)
            /\ (Preceded("parse", user, 0) \/ Preceded("parse", user, 1)) => ret'.n = 1
            /\ Preceded("extract", user, 0) => ret'.n = 0
       /\ StageRun("--generate-pdf", user) =>
            /\ ~fs[user].json => ret'.n = 1
            /\ ret'.n = 0 => ~fs'[user].json
            /\ (Preceded("generate", user, 0) \/ Preceded("generate", user, 1))
                 => ret'.n = 1
            /\ Preceded("parse", user, 0) => ret'.n = 0
    ]_vars

====
